---------------------------- MODULE Spec2Model ----------------------------
(***************************************************************************)
(* A model of packager/rbi_gen.cc: the RBIExporter (worklist, package      *)
(* boundary test, declaration emitter) and the RBIGenerator dispatcher     *)
(* (work queue, worker pool, completion barrier).                          *)
(*                                                                         *)
(* The symbol table (core::GlobalState) is read-only for the generator; it *)
(* is modelled by the constant function gs below.  Text is modelled as a   *)
(* sequence of lines; a line records what it declares or references.       *)
(***************************************************************************)
EXTENDS Integers, Sequences, FiniteSets, TLC

(***************************************************************************)
(* Bounds of the model.                                                    *)
(***************************************************************************)
MaxExports == 2
MaxWorkers == 2
MaxRuns == 2
MaxArgs == 5
MaxArgName == 53
MaxMethodName == 77

(***************************************************************************)
(* Types (core::TypePtr): a tag and the payload of the variant.            *)
(***************************************************************************)
NullT == [tag |-> "Null"]
ClassType(s) == [tag |-> "ClassType", symbol |-> s]
AliasType(s) == [tag |-> "AliasType", symbol |-> s]
OrType(l, r) == [tag |-> "OrType", left |-> l, right |-> r]
AndType(l, r) == [tag |-> "AndType", left |-> l, right |-> r]
AppliedType(k, targs) == [tag |-> "AppliedType", klass |-> k, targs |-> targs]
MetaType(w) == [tag |-> "MetaType", wrapped |-> w]
TupleType(elems) == [tag |-> "TupleType", elems |-> elems]
ShapeType(keys, values) == [tag |-> "ShapeType", keys |-> keys, values |-> values]
SelfTypeParam(d) == [tag |-> "SelfTypeParam", definition |-> d]
LambdaParam(d, lo, up) ==
  [tag |-> "LambdaParam", definition |-> d, lowerBound |-> lo, upperBound |-> up]
UnresolvedAppliedType(k, s, targs) ==
  [tag |-> "UnresolvedAppliedType", klass |-> k, symbol |-> s, targs |-> targs]
LiteralType == [tag |-> "LiteralType"]
SelfType == [tag |-> "SelfType"]
VoidT == ClassType("void")
UntypedT == ClassType("untyped")

(***************************************************************************)
(* Symbols.  Sym0 holds the defaults; the constructors below set the       *)
(* fields a kind of symbol has.  members is the stable-ordered member list *)
(* as (name, symbol) pairs.                                                *)
(***************************************************************************)
Sym0 ==
  [kind |-> "ClassOrModule", owner |-> "root", name |-> "", superClass |-> "none",
   isModule |-> FALSE, classFlags |-> {}, mixins |-> <<>>, typeMembers |-> <<>>,
   members |-> <<>>, singleton |-> "none", attached |-> "none",
   isPrivate |-> FALSE, hasSig |-> FALSE, arguments |-> <<>>, resultType |-> NullT,
   isField |-> FALSE]

Klass(owner, name, super, mixins, tms, members, singleton) ==
  [Sym0 EXCEPT !.owner = owner, !.name = name, !.superClass = super, !.mixins = mixins,
               !.typeMembers = tms, !.members = members, !.singleton = singleton]

Module(owner, name, members) ==
  [Sym0 EXCEPT !.owner = owner, !.name = name, !.isModule = TRUE,
               !.superClass = "ImplicitModuleSuperClass", !.members = members]

SingletonOf(attached, owner, tms, members) ==
  [Sym0 EXCEPT !.owner = owner, !.name = "<Class>", !.attached = attached,
               !.typeMembers = tms, !.members = members]

Method(owner, name, private, sig, args, res) ==
  [Sym0 EXCEPT !.kind = "Method", !.owner = owner, !.name = name, !.isPrivate = private,
               !.hasSig = sig, !.arguments = args, !.resultType = res]

Field(owner, name, type) ==
  [Sym0 EXCEPT !.kind = "FieldOrStaticField", !.owner = owner, !.name = name,
               !.isField = TRUE, !.resultType = type]

StaticField(owner, name, type) ==
  [Sym0 EXCEPT !.kind = "FieldOrStaticField", !.owner = owner, !.name = name,
               !.resultType = type]

TypeMember(owner, name) ==
  [Sym0 EXCEPT !.kind = "TypeMember", !.owner = owner, !.name = name]

Arg(name, type) == [name |-> name, type |-> type, syntheticBlock |-> FALSE]
Blk == [name |-> "blk", type |-> NullT, syntheticBlock |-> TRUE]

SymbolIds ==
  {"none", "root", "PackageRegistry", "PackageRegistry_A", "T_Enum", "T_Struct", "ImplicitModuleSuperClass",
   "Object", "Integer", "void", "untyped",
   "Test", "Test_A", "Test_A_Fixture", "Test_A_Fixture_run",
   "Test_A_Fixture_initialize", "Test_A_Fixture_name", "A_Helper_flag", "B_Base_initialize",
   "A", "A_Widget", "A_Widget_S", "A_Widget_Elem", "A_Widget_helper", "A_Widget_resize",
   "A_Widget_initialize", "A_Widget_size", "A_Widget_S_create", "A_Widget_S_secret",
   "A_Helper", "A_Shape", "A_Shape_area", "A_Shape_area1", "A_Shape_staticInit",
   "A_Shape_count", "A_Hidden",
   "A_Sub", "A_Sub_Thing",
   "B", "B_Base", "B_Base_name", "B_Color", "B_Color_Red", "B_Color_DEFAULT",
   "B_Color_Blue", "B_Mode"}

(***************************************************************************)
(* The symbol table the generator reads.  Three packages: A (namespace A,  *)
(* test namespace Test::A), A::Sub (namespace A::Sub, nested in A) and B.  *)
(* A singleton class is owned by the owner of its attached class.          *)
(***************************************************************************)
SymData(s) ==
  CASE s = "root" ->
         [Sym0 EXCEPT !.name = "<root>",
                      !.members = << <<"A", "A">>, <<"B", "B">>, <<"Test", "Test">> >>]
    [] s = "Test" -> Module("root", "Test", << <<"A", "Test_A">> >>)
    [] s = "Test_A" -> Module("Test", "A", << <<"Fixture", "Test_A_Fixture">> >>)
    [] s = "Test_A_Fixture" ->
         Klass("Test_A", "Fixture", "T_Struct", <<>>, <<>>,
               << <<"initialize", "Test_A_Fixture_initialize">>,
                  <<"run", "Test_A_Fixture_run">>, <<"@name", "Test_A_Fixture_name">> >>,
               "none")
    [] s = "Test_A_Fixture_initialize" ->
         Method("Test_A_Fixture", "initialize", FALSE, TRUE,
                <<Arg("name", ClassType("Integer")), Blk>>, VoidT)
    [] s = "Test_A_Fixture_name" -> Field("Test_A_Fixture", "@name", ClassType("Integer"))
    [] s = "Test_A_Fixture_run" ->
         Method("Test_A_Fixture", "run", FALSE, TRUE,
                <<Arg("k", ClassType("A_Widget_S")), Blk>>, ClassType("A_Shape"))
    [] s = "A" ->
         Module("root", "A",
                << <<"Helper", "A_Helper">>, <<"Hidden", "A_Hidden">>,
                   <<"Shape", "A_Shape">>, <<"Sub", "A_Sub">>, <<"Widget", "A_Widget">> >>)
    [] s = "A_Widget" ->
         Klass("A", "Widget", "B_Base", <<"A_Helper">>, <<"A_Widget_Elem">>,
               << <<"singleton", "A_Widget_S">>, <<"Elem", "A_Widget_Elem">>,
                  <<"helper", "A_Widget_helper">>, <<"initialize", "A_Widget_initialize">>,
                  <<"resize", "A_Widget_resize">>, <<"@size", "A_Widget_size">> >>,
               "A_Widget_S")
    [] s = "A_Widget_S" ->
         SingletonOf("A_Widget", "A", <<>>,
                     << <<"attached", "A_Widget">>, <<"create", "A_Widget_S_create">>,
                        <<"secret", "A_Widget_S_secret">> >>)
    [] s = "A_Widget_Elem" -> TypeMember("A_Widget", "Elem")
    [] s = "A_Widget_helper" ->
         Method("A_Widget", "helper", TRUE, TRUE, <<Blk>>, ClassType("Integer"))
    [] s = "A_Widget_resize" ->
         Method("A_Widget", "resize", FALSE, TRUE,
                <<Arg("w", ClassType("Integer")), Arg("t", ClassType("A_Sub_Thing")), Blk>>,
                ClassType("A_Shape"))
    [] s = "A_Widget_initialize" ->
         Method("A_Widget", "initialize", TRUE, TRUE, <<Blk>>, VoidT)
    [] s = "A_Widget_size" -> Field("A_Widget", "@size", ClassType("A_Hidden"))
    [] s = "A_Widget_S_create" ->
         Method("A_Widget_S", "create", FALSE, TRUE, <<Blk>>, ClassType("A_Widget"))
    [] s = "A_Widget_S_secret" ->
         Method("A_Widget_S", "secret", TRUE, FALSE, <<Blk>>, NullT)
    [] s = "A_Helper" -> Module("A", "Helper", << <<"@flag", "A_Helper_flag">> >>)
    [] s = "A_Helper_flag" -> Field("A_Helper", "@flag", ClassType("Integer"))
    [] s = "A_Shape" ->
         Klass("A", "Shape", "Object", <<>>, <<>>,
               << <<"<static-init>", "A_Shape_staticInit">>, <<"@@count", "A_Shape_count">>,
                  <<"area", "A_Shape_area">>, <<"area$1", "A_Shape_area1">> >>, "none")
    [] s = "A_Shape_staticInit" ->
         Method("A_Shape", "<static-init>", FALSE, FALSE, <<Blk>>, NullT)
    [] s = "A_Shape_count" -> StaticField("A_Shape", "@@count", ClassType("Integer"))
    [] s = "A_Shape_area1" ->
         Method("A_Shape", "area$1", FALSE, FALSE, <<Blk>>, NullT)
    [] s = "A_Shape_area" ->
         Method("A_Shape", "area", FALSE, TRUE,
                <<Arg("of", OrType(ClassType("A_Widget"), ClassType("Integer"))),
                  Arg("elem", SelfTypeParam("A_Widget_Elem")), Blk>>,
                ClassType("Integer"))
    [] s = "A_Hidden" -> Klass("A", "Hidden", "Object", <<>>, <<>>, <<>>, "none")
    [] s = "A_Sub" -> Module("A", "Sub", << <<"Thing", "A_Sub_Thing">> >>)
    [] s = "A_Sub_Thing" -> Klass("A_Sub", "Thing", "Object", <<>>, <<>>, <<>>, "none")
    [] s = "B" ->
         Module("root", "B",
                << <<"Base", "B_Base">>, <<"Color", "B_Color">>, <<"Mode", "B_Mode">> >>)
    [] s = "B_Base" ->
         Klass("B", "Base", "Object", <<>>, <<>>,
               << <<"initialize", "B_Base_initialize">>, <<"name", "B_Base_name">> >>, "none")
    [] s = "B_Base_initialize" ->
         Method("B_Base", "initialize", FALSE, FALSE, <<Blk>>, NullT)
    [] s = "B_Base_name" ->
         Method("B_Base", "name", FALSE, FALSE,
                <<Arg("color", ClassType("B_Color_Blue")), Arg("mode", ClassType("B_Mode")), Blk>>,
                NullT)
    [] s = "B_Color" ->
         Klass("B", "Color", "T_Enum", <<>>, <<>>,
               << <<"DEFAULT", "B_Color_DEFAULT">>, <<"Red", "B_Color_Red">>,
                  <<"Blue", "B_Color_Blue">> >>, "none")
    [] s = "B_Color_Blue" -> Klass("B_Color", "Blue", "B_Color", <<>>, <<>>, <<>>, "none")
    [] s = "B_Mode" -> Klass("B", "Mode", "T_Enum", <<>>, <<>>, <<>>, "none")
    [] s = "B_Color_Red" -> Klass("B_Color", "Red", "B_Color", <<>>, <<>>, <<>>, "none")
    [] s = "B_Color_DEFAULT" -> StaticField("B_Color", "DEFAULT", ClassType("B_Color_Red"))
    [] s = "PackageRegistry_A" ->
         Klass("PackageRegistry", "A_Package", "Object", <<>>, <<>>, <<>>, "none")
    [] s = "T_Enum" -> Klass("root", "T::Enum", "Object", <<>>, <<>>, <<>>, "none")
    [] s = "T_Struct" -> Klass("root", "T::Struct", "Object", <<>>, <<>>, <<>>, "none")
    [] OTHER -> [Sym0 EXCEPT !.name = s]

gs == [s \in SymbolIds |-> SymData(s)]

(***************************************************************************)
(* The package database: each package's name path and mangled name.  The   *)
(* export lists are inputs (see db below).                                 *)
(***************************************************************************)
Packages == <<"pkgA", "pkgASub", "pkgB">>

FullName(pkg) ==
  CASE pkg = "pkgA" -> <<"A">>
    [] pkg = "pkgASub" -> <<"A", "Sub">>
    [] pkg = "pkgB" -> <<"B">>

MangledName(pkg) ==
  CASE pkg = "pkgA" -> "A_Package"
    [] pkg = "pkgASub" -> "A_Sub_Package"
    [] pkg = "pkgB" -> "B_Package"

Exists(s) == s # "none"

IsClassOrModule(s) == gs[s].kind = "ClassOrModule"

IsSingletonClass(s) == gs[s].attached # "none"

FindMember(scope, name) ==
  LET ms == gs[scope].members
      hits == {i \in 1..Len(ms) : ms[i][1] = name}
  IN  IF hits = {} THEN "none" ELSE ms[CHOOSE i \in hits : TRUE][2]

RECURSIVE LookupFrom(_, _, _)
LookupFrom(scope, fqn, i) ==
  IF i > Len(fqn) THEN scope
  ELSE IF IsClassOrModule(scope)
       THEN LET result == FindMember(scope, fqn[i])
            IN  IF ~Exists(result) THEN "none" ELSE LookupFrom(result, fqn, i + 1)
       ELSE "none"

(* A lookup that answers, for a path that does not resolve, what the path  *)
(* without its last component resolves to.                                 *)
lookupFQNOfPrefix(fqn) ==
  IF Exists(LookupFrom("root", fqn, 1)) \/ fqn = <<>>
  THEN LookupFrom("root", fqn, 1)
  ELSE LookupFrom("root", SubSeq(fqn, 1, Len(fqn) - 1), 1)

lookupFQN(fqn) == LookupFrom("root", fqn, 1)

getPkgTestNamespace(pkg) == lookupFQN(<<"Test">> \o FullName(pkg))

buildPackageNamespace ==
  UNION {{lookupFQN(FullName(Packages[i])), getPkgTestNamespace(Packages[i])} \ {"none"} :
           i \in 1..Len(Packages)}


(***************************************************************************)
(* RBIExporter.  An exporter is a record of the object's fields:           *)
(*   pkg, pkgNamespace, pkgTestNamespace, pkgNamespaces   (const members)  *)
(*   emittedSymbols, toEmit                               (the worklist)   *)
(*   out, indent                                          (class Output)   *)
(* and, for the properties only, inserted (every insertion into            *)
(* emittedSymbols, in order), raised (Exception::raise was reached) and    *)
(* pops (the number of toEmit.pop_back() calls).                           *)
(***************************************************************************)
NewExporter(pkg, pkgNamespaces) ==
  [pkg |-> pkg,
   pkgNamespace |-> lookupFQN(FullName(pkg)),
   pkgTestNamespace |-> getPkgTestNamespace(pkg),
   pkgNamespaces |-> pkgNamespaces,
   emittedSymbols |-> {}, toEmit |-> <<>>, out |-> <<>>, indent |-> 0,
   inserted |-> <<>>, raised |-> FALSE, pops |-> 0]

Println(st, k, sym, ref) ==
  [st EXCEPT !.out = Append(@, [k |-> k, sym |-> sym, ref |-> ref, ind |-> st.indent])]

Tab(st) == [st EXCEPT !.indent = @ + 1]

Untab(st) == [st EXCEPT !.indent = @ - 1]

Insert(st, symbol) ==
  [st EXCEPT !.emittedSymbols = @ \cup {symbol}, !.inserted = Append(@, symbol)]

(* isInTestPackage with the two namespaces of the package exchanged. *)
RECURSIVE isInTestPackageExchanged(_, _)
isInTestPackageExchanged(st, klass) ==
  IF klass = "root" \/ klass = "PackageRegistry" THEN FALSE
  ELSE IF klass = st.pkgTestNamespace THEN FALSE
  ELSE IF klass = st.pkgNamespace THEN TRUE
  ELSE IF IsClassOrModule(klass) /\ klass \in st.pkgNamespaces THEN FALSE
  ELSE isInTestPackageExchanged(st, gs[klass].owner)

RECURSIVE isInTestPackage(_, _)
isInTestPackage(st, klass) ==
  IF klass = "root" \/ klass = "PackageRegistry" THEN FALSE
  ELSE IF klass = st.pkgNamespace THEN FALSE
  ELSE IF klass = st.pkgTestNamespace THEN TRUE
  ELSE IF IsClassOrModule(klass) /\ klass \in st.pkgNamespaces THEN FALSE
  ELSE isInTestPackage(st, gs[klass].owner)

(* isInPackage without the test on other packages' namespaces: a package   *)
(* would own the symbols of the packages nested in its namespace.          *)
RECURSIVE isInPackageIgnoringNested(_, _)
isInPackageIgnoringNested(st, klass) ==
  IF klass = "root" \/ klass = "PackageRegistry" THEN FALSE
  ELSE IF klass = st.pkgNamespace \/ klass = st.pkgTestNamespace THEN TRUE
  ELSE isInPackageIgnoringNested(st, gs[klass].owner)

(* isInPackage without the test on the test namespace of the package. *)
RECURSIVE isInPackageRegularOnly(_, _)
isInPackageRegularOnly(st, klass) ==
  IF klass = "root" \/ klass = "PackageRegistry" THEN FALSE
  ELSE IF klass = st.pkgNamespace THEN TRUE
  ELSE IF IsClassOrModule(klass) /\ klass \in st.pkgNamespaces THEN FALSE
  ELSE isInPackageRegularOnly(st, gs[klass].owner)

RECURSIVE isInPackage(_, _)
isInPackage(st, klass) ==
  IF klass = "root" \/ klass = "PackageRegistry" THEN FALSE
  ELSE IF klass = st.pkgNamespace \/ klass = st.pkgTestNamespace THEN TRUE
  ELSE IF IsClassOrModule(klass) /\ klass \in st.pkgNamespaces THEN FALSE
  ELSE isInPackage(st, gs[klass].owner)

(* maybeEmit without the test on emittedSymbols. *)
RECURSIVE maybeEmitUnchecked(_, _)
maybeEmitUnchecked(st, symbol) ==
  IF IsClassOrModule(symbol) /\ IsSingletonClass(symbol)
  THEN maybeEmitUnchecked(st, gs[symbol].attached)
  ELSE IF isInPackage(st, symbol)
       THEN [Insert(st, symbol) EXCEPT !.toEmit = Append(@, symbol)]
       ELSE st

(* maybeEmit without the step from a singleton class to its attached class. *)
maybeEmitSingletonItself(st, symbol) ==
  IF symbol \notin st.emittedSymbols /\ isInPackage(st, symbol)
  THEN [Insert(st, symbol) EXCEPT !.toEmit = Append(@, symbol)]
  ELSE st

(* maybeEmit without the test on isInPackage. *)
RECURSIVE maybeEmitAnyPackage(_, _)
maybeEmitAnyPackage(st, symbol) ==
  IF IsClassOrModule(symbol) /\ IsSingletonClass(symbol)
  THEN maybeEmitAnyPackage(st, gs[symbol].attached)
  ELSE IF symbol \notin st.emittedSymbols
       THEN [Insert(st, symbol) EXCEPT !.toEmit = Append(@, symbol)]
       ELSE st

RECURSIVE maybeEmit(_, _)
maybeEmit(st, symbol) ==
  IF IsClassOrModule(symbol) /\ IsSingletonClass(symbol)
  THEN maybeEmit(st, gs[symbol].attached)
  ELSE IF symbol \notin st.emittedSymbols /\ isInPackage(st, symbol)
       THEN [Insert(st, symbol) EXCEPT !.toEmit = Append(@, symbol)]
       ELSE st

(* enqueueSymbolsInType without the case of SelfTypeParam. *)
RECURSIVE enqueueSymbolsInTypeNoDefinition(_, _)
RECURSIVE EnqueueEachNoDefinition(_, _, _)
enqueueSymbolsInTypeNoDefinition(st, type) ==
  CASE type.tag \in {"AliasType", "ClassType"} -> maybeEmit(st, type.symbol)
    [] type.tag \in {"AndType", "OrType"} ->
         enqueueSymbolsInTypeNoDefinition(enqueueSymbolsInTypeNoDefinition(st, type.left),
                                          type.right)
    [] type.tag = "AppliedType" ->
         EnqueueEachNoDefinition(maybeEmit(st, type.klass), type.targs, 1)
    [] type.tag = "MetaType" -> enqueueSymbolsInTypeNoDefinition(st, type.wrapped)
    [] type.tag = "ShapeType" ->
         EnqueueEachNoDefinition(EnqueueEachNoDefinition(st, type.keys, 1), type.values, 1)
    [] type.tag = "TupleType" -> EnqueueEachNoDefinition(st, type.elems, 1)
    [] type.tag = "UnresolvedAppliedType" ->
         EnqueueEachNoDefinition(maybeEmit(maybeEmit(st, type.klass), type.symbol),
                                 type.targs, 1)
    [] type.tag = "LambdaParam" ->
         enqueueSymbolsInTypeNoDefinition(
           enqueueSymbolsInTypeNoDefinition(st, type.lowerBound), type.upperBound)
    [] OTHER -> st

EnqueueEachNoDefinition(st, types, i) ==
  IF i > Len(types) THEN st
  ELSE EnqueueEachNoDefinition(enqueueSymbolsInTypeNoDefinition(st, types[i]), types, i + 1)

RECURSIVE enqueueSymbolsInType(_, _)
RECURSIVE EnqueueEach(_, _, _)
enqueueSymbolsInType(st, type) ==
  CASE type.tag = "AliasType" -> maybeEmit(st, type.symbol)
    [] type.tag = "AndType" ->
         enqueueSymbolsInType(enqueueSymbolsInType(st, type.left), type.right)
    [] type.tag = "AppliedType" -> EnqueueEach(maybeEmit(st, type.klass), type.targs, 1)
    [] type.tag = "ClassType" -> maybeEmit(st, type.symbol)
    [] type.tag = "MetaType" -> enqueueSymbolsInType(st, type.wrapped)
    [] type.tag = "OrType" ->
         enqueueSymbolsInType(enqueueSymbolsInType(st, type.left), type.right)
    [] type.tag = "SelfTypeParam" -> maybeEmit(st, type.definition)
    [] type.tag = "ShapeType" ->
         EnqueueEach(EnqueueEach(st, type.keys, 1), type.values, 1)
    [] type.tag = "TupleType" -> EnqueueEach(st, type.elems, 1)
    [] type.tag = "UnresolvedAppliedType" ->
         EnqueueEach(maybeEmit(maybeEmit(st, type.klass), type.symbol), type.targs, 1)
    [] type.tag = "LambdaParam" ->
         enqueueSymbolsInType(enqueueSymbolsInType(st, type.lowerBound), type.upperBound)
    [] OTHER -> st

EnqueueEach(st, types, i) ==
  IF i > Len(types) THEN st
  ELSE EnqueueEach(enqueueSymbolsInType(st, types[i]), types, i + 1)

getResultType(type) == IF type.tag = "Null" THEN UntypedT ELSE type

(* The types prettySigForMethod enqueues, in order: the return type, then   *)
(* the type of every argument that is not the synthetic block argument.    *)
RECURSIVE SigArgTypes(_, _)
SigArgTypes(args, i) ==
  IF i > Len(args) THEN <<>>
  ELSE IF args[i].syntheticBlock THEN SigArgTypes(args, i + 1)
       ELSE <<getResultType(args[i].type)>> \o SigArgTypes(args, i + 1)

(* The types emit(MethodRef) enqueues before it prints: every argument's. *)
ArgTypes(args) == [i \in 1..Len(args) |-> args[i].type]

(* prettySigForMethod as a function without an effect on the exporter. *)
prettySigForMethodPure(st, method) == st

(* The effect of prettySigForMethod on the exporter. *)
prettySigForMethod(st, method) ==
  EnqueueEach(st, <<getResultType(gs[method].resultType)>>
                    \o SigArgTypes(gs[method].arguments, 1), 1)

(* Names of kind core::NameKind::UNIQUE, and the names that start with @@. *)
UniqueNames == {"area$1"}

CVarNames == {"@@count"}

shouldSkipMember(name) ==
  IF name \in UniqueNames THEN TRUE
  ELSE name \in {"singleton", "AttachedClass", "attached"}

(* out.println(prettySigForMethod(...)) when the method has a sig. *)
PrintSig(st, method) ==
  IF gs[method].hasSig
  THEN Println(prettySigForMethod(st, method), "sig", method, "none")
  ELSE st

(* emit(MethodRef) without the return on the private flag. *)
emitMethodAnyVisibility(st, method) ==
  IF method \in st.emittedSymbols THEN st
  ELSE IF gs[method].name = "<static-init>" THEN st
  ELSE Println(PrintSig(EnqueueEach(Insert(st, method), ArgTypes(gs[method].arguments), 1),
                        method),
               "def", method, "none")

emitMethod(st, method) ==
  IF method \in st.emittedSymbols THEN st
  ELSE IF gs[method].name = "<static-init>" THEN st
  ELSE IF gs[method].isPrivate THEN Insert(st, method)
  ELSE Println(PrintSig(EnqueueEach(Insert(st, method), ArgTypes(gs[method].arguments), 1),
                        method),
               "def", method, "none")

(* Whether emit(FieldRef) returns without printing the static field. *)
SuppressedStaticField(field) ==
  LET resultType == gs[field].resultType
  IN  \/ /\ resultType.tag = "AliasType"
         /\ gs[resultType.symbol].kind = "TypeMember"
         /\ IsSingletonClass(gs[resultType.symbol].owner)
      \/ /\ resultType.tag = "ClassType"
         /\ gs[gs[resultType.symbol].superClass].superClass = "T_Enum"

emitField(st, field, isCVar) ==
  IF ~gs[field].isField
  THEN IF SuppressedStaticField(field) THEN st
       ELSE Println(st, IF isCVar THEN "cvar" ELSE "static_field", field, "none")
  ELSE Println(st, "field", field, "none")

emitTypeMember(st, tm) ==
  IF tm \in st.emittedSymbols THEN st
  ELSE IF gs[tm].name = "AttachedClass" THEN Insert(st, tm)
  ELSE Println(Insert(st, tm),
               IF IsSingletonClass(gs[tm].owner) THEN "type_template" ELSE "type_member",
               tm, "none")

RECURSIVE EmitFields(_, _, _)
EmitFields(st, fields, i) ==
  IF i > Len(fields) THEN st
  ELSE EmitFields(emitField(st, fields[i], FALSE), fields, i + 1)

(* The header of the constructor and the fields nested in its body. *)
EmitInitializeDef(st, k, method, fields) ==
  IF fields = <<>>
  THEN Println(st, k, method, "none")
  ELSE Println(Untab(EmitFields(Tab(Println(st, k, method, "none")), fields, 1)),
               "end", method, "none")

(* maybeEmitInitialized without the return for the classes of T::Struct. *)
maybeEmitInitializedOfStruct(st, method, fields) ==
  IF fields = <<>> /\ ~Exists(method) THEN st
  ELSE IF Exists(method)
       THEN EmitInitializeDef(PrintSig(st, method), "def", method, fields)
       ELSE EmitInitializeDef(Println(st, "sig_void", "none", "none"),
                              "def_initialize", method, fields)

maybeEmitInitialized(st, method, fields) ==
  IF fields = <<>> /\ ~Exists(method) THEN st
  ELSE IF Exists(method) /\ gs[gs[method].owner].superClass = "T_Struct" THEN st
  ELSE IF Exists(method)
       THEN EmitInitializeDef(PrintSig(st, method), "def", method, fields)
       ELSE EmitInitializeDef(Println(st, "sig_void", "none", "none"),
                              "def_initialize", method, fields)

RECURSIVE EmitClassFlags(_, _, _)
EmitClassFlags(st, klass, i) ==
  LET order == <<"abstract!", "final!", "interface!", "sealed!">>
  IN  IF i > Len(order) THEN st
      ELSE EmitClassFlags(IF order[i] \in gs[klass].classFlags
                          THEN Println(st, order[i], klass, "none") ELSE st,
                          klass, i + 1)

RECURSIVE EmitMixins(_, _, _, _)
EmitMixins(st, mixins, i, inSingleton) ==
  IF i > Len(mixins) THEN st
  ELSE EmitMixins(maybeEmit(Println(st, IF inSingleton \/ IsSingletonClass(mixins[i])
                                        THEN "extend" ELSE "include",
                                    "none", mixins[i]),
                            mixins[i]),
                  mixins, i + 1, inSingleton)

RECURSIVE EmitTypeMembers(_, _, _)
EmitTypeMembers(st, tms, i) ==
  IF i > Len(tms) THEN st
  ELSE EmitTypeMembers(emitTypeMember(st, tms[i]), tms, i + 1)

(* What the member loops do with one member: "skip", "enumValue",          *)
(* "maybeEmit", "initialize", "emitMethod", "pendingField", "emitField" or *)
(* "emitCVar".                                                             *)
MemberCase(klass, isEnum, name, member, inSingleton) ==
  IF shouldSkipMember(name) THEN "skip"
  ELSE CASE gs[member].kind = "ClassOrModule" ->
              IF ~inSingleton /\ isEnum /\ gs[member].superClass = klass
              THEN "enumValue" ELSE "maybeEmit"
         [] gs[member].kind = "Method" ->
              IF inSingleton
              THEN IF isEnum /\ name = "sealed_subclasses" THEN "skip" ELSE "emitMethod"
              ELSE IF name = "initialize" THEN "initialize" ELSE "emitMethod"
         [] gs[member].kind = "FieldOrStaticField" ->
              IF gs[member].isField
              THEN IF inSingleton THEN "emitField" ELSE "pendingField"
              ELSE IF gs[member].name \in CVarNames THEN "emitCVar" ELSE "maybeEmit"
         [] OTHER -> "skip"

(* The effect of one member on the exporter. *)
EmitMember(st, member, what) ==
  CASE what = "maybeEmit" -> maybeEmit(st, member)
    [] what = "emitMethod" -> emitMethod(st, member)
    [] what = "emitField" -> emitField(st, member, FALSE)
    [] what = "emitCVar" -> emitField(st, member, TRUE)
    [] OTHER -> st

(* The member loop over the (name, member) pairs of a scope; loc holds the *)
(* exporter and the loop's locals initializeMethod, pendingFields and      *)
(* pendingEnumValues.                                                      *)
RECURSIVE EmitMembers(_, _, _, _, _, _)
EmitMembers(loc, klass, isEnum, members, i, inSingleton) ==
  IF i > Len(members) THEN loc
  ELSE EmitMembers(
         LET what == MemberCase(klass, isEnum, members[i][1], members[i][2], inSingleton)
         IN  CASE what = "enumValue" ->
                    [loc EXCEPT !.pendingEnumValues = Append(@, members[i][2])]
               [] what = "initialize" -> [loc EXCEPT !.initializeMethod = members[i][2]]
               [] what = "pendingField" ->
                    [loc EXCEPT !.pendingFields = Append(@, members[i][2])]
               [] OTHER -> [loc EXCEPT !.st = EmitMember(@, members[i][2], what)],
         klass, isEnum, members, i + 1, inSingleton)

NewLocals(st) ==
  [st |-> st, initializeMethod |-> "none", pendingFields |-> <<>>,
   pendingEnumValues |-> <<>>]

(* The singleton scope: extend lines, type templates, members. *)
EmitSingletonScope(loc, klass, isEnum, singleton) ==
  IF ~Exists(singleton) THEN loc
  ELSE EmitMembers([loc EXCEPT !.st = EmitTypeMembers(
                                        EmitMixins(@, gs[singleton].mixins, 1, TRUE),
                                        gs[singleton].typeMembers, 1)],
                   klass, isEnum, gs[singleton].members, 1, TRUE)

RECURSIVE EmitEnumValues(_, _, _)
EmitEnumValues(st, vals, i) ==
  IF i > Len(vals) THEN st
  ELSE EmitEnumValues(Println(st, "enum_value", vals[i], "none"), vals, i + 1)

EmitEnumBlock(st, klass, isEnum, vals) ==
  IF isEnum /\ vals # <<>>
  THEN Println(Untab(EmitEnumValues(Tab(Println(st, "enums do", klass, "none")), vals, 1)),
               "end", klass, "none")
  ELSE st

(* maybeEmitInitialized(initializeMethod, pendingFields); pendingFields.clear() *)
EmitInitialized(loc) ==
  [loc EXCEPT !.st = maybeEmitInitialized(@, loc.initializeMethod, loc.pendingFields),
              !.pendingFields = <<>>]

(* The enum block and the closing end, given the locals of the two scopes. *)
EmitClassEnd(loc, klass, isEnum) ==
  Println(Untab(EmitEnumBlock(loc.st, klass, isEnum, loc.pendingEnumValues)),
          "end", klass, "none")

(* The class definition line, with the superclass enqueued when it is named. *)
EmitClassLine(st, klass, superClass) ==
  IF Exists(superClass) /\ superClass # "ImplicitModuleSuperClass"
  THEN Println(maybeEmit(st, superClass), IF gs[klass].isModule THEN "module" ELSE "class",
               klass, superClass)
  ELSE Println(st, IF gs[klass].isModule THEN "module" ELSE "class", klass, "none")

EmitClassBody(st, klass, isEnum) ==
  EmitClassEnd(
    EmitSingletonScope(
      EmitInitialized(
        EmitMembers(
          NewLocals(EmitTypeMembers(
                      EmitMixins(EmitClassFlags(Tab(EmitClassLine(st, klass,
                                                                  gs[klass].superClass)),
                                                klass, 1),
                                 gs[klass].mixins, 1, FALSE),
                      gs[klass].typeMembers, 1)),
          klass, isEnum, gs[klass].members, 1, FALSE)),
      klass, isEnum, gs[klass].singleton),
    klass, isEnum)

(* emit(ClassOrModuleRef) without the return for an enum value class. *)
emitClassOfEnumValue(st, klass) ==
  IF ~isInPackage(st, klass) \/ klass \notin st.emittedSymbols
  THEN [st EXCEPT !.raised = TRUE]
  ELSE EmitClassBody(st, klass, gs[klass].superClass = "T_Enum")

emitClass(st, klass) ==
  IF ~isInPackage(st, klass) \/ klass \notin st.emittedSymbols
  THEN [st EXCEPT !.raised = TRUE]
  ELSE IF gs[gs[klass].superClass].superClass = "T_Enum" THEN st
  ELSE EmitClassBody(st, klass, gs[klass].superClass = "T_Enum")

(* The dispatch of emitLoop on the kind of the popped symbol. *)
EmitSymbol(st, symbol) ==
  CASE gs[symbol].kind = "ClassOrModule" -> emitClass(st, symbol)
    [] gs[symbol].kind = "Method" -> emitMethod(st, symbol)
    [] gs[symbol].kind = "FieldOrStaticField" -> emitField(st, symbol, FALSE)
    [] OTHER -> st

(* An iteration that takes the symbol at the front of toEmit. *)
emitLoopStepFromFront(st) ==
  EmitSymbol([st EXCEPT !.toEmit = Tail(@), !.pops = @ + 1], Head(st.toEmit))

(* An iteration that leaves the symbol it takes on toEmit. *)
emitLoopStepWithoutPop(st) ==
  EmitSymbol([st EXCEPT !.pops = @ + 1], st.toEmit[Len(st.toEmit)])

(* One iteration of the loop of emitLoop. *)
emitLoopStep(st) ==
  EmitSymbol([st EXCEPT !.toEmit = SubSeq(@, 1, Len(@) - 1), !.pops = @ + 1],
             st.toEmit[Len(st.toEmit)])

RECURSIVE emitLoop(_)
emitLoop(st) ==
  IF st.toEmit = <<>> \/ st.raised THEN st ELSE emitLoop(emitLoopStep(st))

(***************************************************************************)
(* RBIExporter::emit(): the export lists are resolved, then the regular    *)
(* pass and the test pass run on the same exporter.  A run is the record   *)
(* of the locals of emit(): exporter, resolved (the vectors exports and    *)
(* testExports) and output.                                                *)
(***************************************************************************)
HeaderLine == [k |-> "# typed: true", sym |-> "none", ref |-> "none", ind |-> 0]

(* The first loop of emit() without the test on isInTestPackage. *)
RECURSIVE ResolveExportsUnrouted(_, _, _, _)
ResolveExportsUnrouted(st, rawExports, i, acc) ==
  IF i > Len(rawExports) THEN acc
  ELSE ResolveExportsUnrouted(st, rawExports, i + 1,
         IF ~Exists(lookupFQN(rawExports[i])) THEN acc
         ELSE [acc EXCEPT !.exports = Append(@, lookupFQN(rawExports[i]))])

RECURSIVE ResolveExports(_, _, _, _)
ResolveExports(st, rawExports, i, acc) ==
  IF i > Len(rawExports) THEN acc
  ELSE ResolveExports(st, rawExports, i + 1,
         IF ~Exists(lookupFQN(rawExports[i])) THEN acc
         ELSE IF isInTestPackage(st, lookupFQN(rawExports[i]))
              THEN [acc EXCEPT !.testExports = Append(@, lookupFQN(rawExports[i]))]
              ELSE [acc EXCEPT !.exports = Append(@, lookupFQN(rawExports[i]))])

RECURSIVE ResolveTestExports(_, _, _)
ResolveTestExports(rawTestExports, i, acc) ==
  IF i > Len(rawTestExports) THEN acc
  ELSE ResolveTestExports(rawTestExports, i + 1,
         IF Exists(lookupFQN(rawTestExports[i]))
         THEN [acc EXCEPT !.testExports = Append(@, lookupFQN(rawTestExports[i]))]
         ELSE acc)

Resolve(st, pkgInfo) ==
  ResolveTestExports(pkgInfo.testExports, 1,
                     ResolveExports(st, pkgInfo.exports, 1,
                                    [exports |-> <<>>, testExports |-> <<>>]))

(* A seeding that starts from an empty emittedSymbols. *)
RECURSIVE SeedExportsAfterClear(_, _, _)
SeedExportsAfterClear(st, syms, i) ==
  IF i > Len(syms) THEN st
  ELSE SeedExportsAfterClear(maybeEmit(IF i = 1 THEN [st EXCEPT !.emittedSymbols = {}] ELSE st,
                                       syms[i]),
                             syms, i + 1)

RECURSIVE SeedExports(_, _, _)
SeedExports(st, syms, i) ==
  IF i > Len(syms) THEN st ELSE SeedExports(maybeEmit(st, syms[i]), syms, i + 1)

(* Output::toString(): the text is returned and the buffer cleared. *)
toString(st) == [text |-> st.out, st |-> [st EXCEPT !.out = <<>>]]

NewOutput(pkg) == [baseFilePath |-> MangledName(pkg), rbi |-> <<>>, testRBI |-> <<>>]

NewRun(st, pkgInfo) ==
  [exporter |-> st, resolved |-> Resolve(st, pkgInfo), output |-> NewOutput(st.pkg)]

(* The regular pass ending with a cleared emittedSymbols. *)
CaptureRbiAndForget(run) ==
  [run EXCEPT !.output.rbi = <<HeaderLine>> \o toString(run.exporter).text,
              !.exporter = [toString(@).st EXCEPT !.emittedSymbols = {}]]

CaptureRbi(run) ==
  [run EXCEPT !.output.rbi = <<HeaderLine>> \o toString(run.exporter).text,
              !.exporter = toString(@).st]

CaptureTestRbi(run) ==
  [run EXCEPT !.output.testRBI = IF toString(run.exporter).text # <<>>
                                 THEN <<HeaderLine>> \o toString(run.exporter).text
                                 ELSE @,
              !.exporter = toString(@).st]

(* A pass up to the end of its emitLoop. *)
DrainPass(run, syms) ==
  [run EXCEPT !.exporter = emitLoop(SeedExports(@, syms, 1))]

RegularPass(run) ==
  IF run.resolved.exports # <<>> THEN CaptureRbi(DrainPass(run, run.resolved.exports))
  ELSE run

TestPass(run) ==
  IF run.resolved.testExports # <<>> /\ ~run.exporter.raised
  THEN CaptureTestRbi(DrainPass(run, run.resolved.testExports))
  ELSE run

(* emit() run to completion. *)
exporterEmit(st, pkgInfo) == TestPass(RegularPass(NewRun(st, pkgInfo)))

(***************************************************************************)
(* The inputs: a package's export lists are drawn from the paths below.    *)
(***************************************************************************)
Paths ==
  {<<"A", "Widget">>, <<"A", "Shape">>, <<"Test", "A", "Fixture">>, <<"B", "Base">>,
   <<"B", "Color">>, <<"B", "Color", "Red">>, <<"A", "Missing">>,
   <<"B", "Color", "DEFAULT", "Value">>, <<"A", "Shape", "area">>}

ExportLists == UNION {[1..n -> Paths] : n \in 0..MaxExports}

TestExportLists == {<<>>} \cup {<<p>> : p \in Paths}

PkgSet == {Packages[i] : i \in 1..Len(Packages)}

DefaultDB ==
  [p \in PkgSet |->
     CASE p = "pkgA" -> [exports |-> << <<"A", "Widget">>, <<"Test", "A", "Fixture">> >>,
                         testExports |-> << <<"A", "Shape">> >>]
       [] p = "pkgB" -> [exports |-> << <<"B", "Color">>, <<"B", "Base">> >>,
                         testExports |-> <<>>]
       [] OTHER -> [exports |-> <<>>, testExports |-> <<>>]]

(***************************************************************************)
(* RBIGenerator::runOnce and the pieces of RBIGenerator::run.              *)
(***************************************************************************)
runOnce(pkg, database, packageNamespaces) ==
  exporterEmit(NewExporter(pkg, packageNamespaces), database[pkg]).output

(* What runOnce returns for each package of a database: runOnce reads      *)
(* nothing but the GlobalState, which no worker changes.                   *)
RECURSIVE RunOnceEach(_, _)
RunOnceEach(database, i) ==
  IF i > Len(Packages) THEN <<>>
  ELSE <<runOnce(Packages[i], database, buildPackageNamespace)>>
       \o RunOnceEach(database, i + 1)

PackageIndex(pkg) == CHOOSE i \in 1..Len(Packages) : Packages[i] = pkg

(* The barrier constructed with workers.size() alone. *)
BarrierInitPoolSize(size) == size

BarrierInit(size) == IF size > 1 THEN size ELSE 1

(* FileOps::write: the file at path holds text afterwards. *)
FileWrite(fs, path, text) ==
  {f \in fs : f.path # path} \cup {[path |-> path, text |-> text]}

(* A path that does not depend on the package. *)
RbiPathShared(out) == <<"package", ".rbi">>

RbiPath(out) == <<out.baseFilePath, ".rbi">>

TestRbiPath(out) == <<out.baseFilePath, ".test.rbi">>

WriteRbiFile(fs, out) ==
  IF out.rbi # <<>> THEN FileWrite(fs, RbiPath(out), out.rbi) ELSE fs

WriteTestRbiFile(fs, out) ==
  IF out.testRBI # <<>> THEN FileWrite(fs, TestRbiPath(out), out.testRBI) ELSE fs

(* ConcurrentBoundedQueue::try_pop on a queue with items q and left        *)
(* elements still to be pushed: an item if there is one; done once every   *)
(* element has been pushed and popped.                                     *)
try_pop(q, left) ==
  [gotItem |-> q # <<>>, done |-> q = <<>> /\ left = 0]

(***************************************************************************)
(* The formatters prettySigForMethod and prettyDefForMethod as functions   *)
(* from a method to text.  Here text is the sequence of the pieces that    *)
(* fmt::format and fmt::join put one after the other; a line break is a    *)
(* piece of its own, and the size of a text is the sum of the sizes of its *)
(* pieces.  A method is a record of what the formatters read of it.        *)
(***************************************************************************)
MAX_PRETTY_SIG_ARGS == 4
MAX_PRETTY_WIDTH == 80

(* string::size() *)
RECURSIVE Width(_)
Width(text) == IF text = <<>> THEN 0 ELSE Len(Head(text)) + Width(Tail(text))

(* fmt::join(texts, sep) *)
RECURSIVE join(_, _)
join(texts, sep) ==
  IF texts = <<>> THEN <<>>
  ELSE IF Len(texts) = 1 THEN texts[1]
       ELSE texts[1] \o sep \o join(Tail(texts), sep)

(* flags: abstract, overridable, override, in this order *)
SigFlags(m) ==
  (IF m.isAbstract THEN << <<"abstract">> >> ELSE <<>>)
    \o (IF m.isOverridable THEN << <<"overridable">> >> ELSE <<>>)
    \o (IF m.isOverride THEN << <<"override">> >> ELSE <<>>)

sigCall(m) == IF m.isFinal THEN "sig(:final)" ELSE "sig"

(* typeArguments: ":" and the name of each type argument *)
SigTypeArguments(m) == [i \in 1..Len(m.typeArguments) |-> <<":", m.typeArguments[i]>>]

(* typeAndArgNames: name, ": " and the shown type of each displayed argument *)
RECURSIVE typeAndArgNames(_, _)
typeAndArgNames(args, i) ==
  IF i > Len(args) THEN <<>>
  ELSE IF args[i].syntheticBlock THEN typeAndArgNames(args, i + 1)
       ELSE << <<args[i].name, ": ", args[i].typeShown>> >> \o typeAndArgNames(args, i + 1)

methodReturnType(m) ==
  IF m.resultShown = "void" THEN <<"void">> ELSE <<"returns(", m.resultShown, ")">>

flagString(m) ==
  IF SigFlags(m) = <<>> THEN <<>> ELSE join(SigFlags(m), <<".">>) \o <<".">>

typeParamsString(m) ==
  IF m.typeArguments = <<>> THEN <<>>
  ELSE <<"type_parameters(">> \o join(SigTypeArguments(m), <<", ">>) \o <<").">>

paramsString(m) ==
  IF typeAndArgNames(m.arguments, 1) = <<>> THEN <<>>
  ELSE <<"params(">> \o join(typeAndArgNames(m.arguments, 1), <<", ">>) \o <<").">>

(* "{} {{{}{}{}{}}}" *)
oneline(m) ==
  <<sigCall(m), " {">> \o flagString(m) \o typeParamsString(m) \o paramsString(m)
    \o methodReturnType(m) \o <<"}">>

flagStringMultiline(m) ==
  IF SigFlags(m) = <<>> THEN <<>>
  ELSE join(SigFlags(m), <<"\n", "  .">>) \o <<"\n", "  .">>

typeParamsStringMultiline(m) ==
  IF m.typeArguments = <<>> THEN <<>>
  ELSE <<"type_parameters(">> \o join(SigTypeArguments(m), <<", ">>) \o <<")", "\n", "  .">>

paramsStringMultiline(m) ==
  IF typeAndArgNames(m.arguments, 1) = <<>> THEN <<>>
  ELSE <<"params(", "\n", "    ">>
         \o join(typeAndArgNames(m.arguments, 1), <<",", "\n", "    ">>)
         \o <<"\n", "  )", "\n", "  .">>

(* "{} do\n  {}{}{}{}\nend" *)
SigMultiline(m) ==
  <<sigCall(m), " do", "\n", "  ">> \o flagStringMultiline(m) \o typeParamsStringMultiline(m)
    \o paramsStringMultiline(m) \o methodReturnType(m) \o <<"\n", "end">>

(* The layout test with the width alone. *)
prettySigTextAnyArgCount(m) ==
  IF Width(oneline(m)) <= MAX_PRETTY_WIDTH THEN oneline(m) ELSE SigMultiline(m)

(* The text prettySigForMethod returns (method.exists() holds for every    *)
(* method emit passes).                                                    *)
prettySigText(m) ==
  IF /\ Width(oneline(m)) <= MAX_PRETTY_WIDTH
     /\ Len(typeAndArgNames(m.arguments, 1)) <= MAX_PRETTY_SIG_ARGS
  THEN oneline(m)
  ELSE SigMultiline(m)

visibility(m) ==
  IF m.isPrivate THEN "private " ELSE IF m.isProtected THEN "protected " ELSE ""

methodNamePrefix(m) == IF m.ownerAttached THEN "self." ELSE ""

ArgPrefix(arg) ==
  IF "isRepeated" \in arg.flags
  THEN (IF "isKeyword" \in arg.flags THEN "**" ELSE "*")
  ELSE IF "isKeyword" \in arg.flags THEN ""
  ELSE IF "isBlock" \in arg.flags THEN "&"
  ELSE ""

ArgSuffix(arg) ==
  IF "isRepeated" \in arg.flags THEN ""
  ELSE IF "isKeyword" \in arg.flags
  THEN (IF "isDefault" \in arg.flags THEN ": T.let(T.unsafe(nil), T.untyped)" ELSE ":")
  ELSE IF "isBlock" \in arg.flags THEN ""
  ELSE IF "isDefault" \in arg.flags THEN "= T.let(T.unsafe(nil), T.untyped)"
  ELSE ""

(* prettyArgs: prefix, name and suffix of each displayed argument *)
RECURSIVE prettyArgs(_, _)
prettyArgs(args, i) ==
  IF i > Len(args) THEN <<>>
  ELSE IF args[i].syntheticBlock THEN prettyArgs(args, i + 1)
       ELSE << <<ArgPrefix(args[i]), args[i].name, ArgSuffix(args[i])>> >>
              \o prettyArgs(args, i + 1)

(* "{}def {}{}{}{}{}" with "(", ", " and ")", or with three empty strings *)
DefOneline(m) ==
  <<visibility(m), "def ", methodNamePrefix(m), m.name>>
    \o (IF Len(prettyArgs(m.arguments, 1)) > 0
        THEN <<"(">> \o join(prettyArgs(m.arguments, 1), <<", ">>) \o <<")">>
        ELSE <<>>)

(* "{}def {}{}{}{}{}" with "(\n  ", ",\n  " and "\n)" *)
DefMultiline(m) ==
  <<visibility(m), "def ", methodNamePrefix(m), m.name, "(", "\n", "  ">>
    \o join(prettyArgs(m.arguments, 1), <<",", "\n", "  ">>) \o <<"\n", ")">>

(* The layout test with > in the place of >=. *)
prettyDefForMethodWiderOnly(m) ==
  IF Len(prettyArgs(m.arguments, 1)) > 0 /\ Width(DefOneline(m)) > MAX_PRETTY_WIDTH
  THEN DefMultiline(m)
  ELSE DefOneline(m)

prettyDefForMethod(m) ==
  IF Len(prettyArgs(m.arguments, 1)) > 0 /\ Width(DefOneline(m)) >= MAX_PRETTY_WIDTH
  THEN DefMultiline(m)
  ELSE DefOneline(m)

(***************************************************************************)
(* The methods the formatters are applied to: a name of up to              *)
(* MaxMethodName characters, up to MaxArgs displayed arguments and the     *)
(* synthetic block argument that ends every argument list; the first       *)
(* argument has a name of up to MaxArgName characters and any of the       *)
(* argument kinds, the others are positional with a name of one character. *)
(***************************************************************************)
RECURSIVE Ident(_)
Ident(n) == IF n = 0 THEN "" ELSE "x" \o Ident(n - 1)

FormatArg(name, flags) ==
  [name |-> name, typeShown |-> "Integer", syntheticBlock |-> FALSE, flags |-> flags]

FormatBlk == [name |-> "blk", typeShown |-> "T.untyped", syntheticBlock |-> TRUE,
              flags |-> {"isBlock"}]

FormatArgs(n, len, flags) ==
  [i \in 1..n |-> IF i = 1 THEN FormatArg(Ident(len), flags) ELSE FormatArg("y", {})]
    \o <<FormatBlk>>

FormatMethod0 ==
  [name |-> "m", isFinal |-> FALSE, isAbstract |-> FALSE, isOverridable |-> FALSE,
   isOverride |-> FALSE, typeArguments |-> <<>>, arguments |-> <<FormatBlk>>,
   resultShown |-> "void", isPrivate |-> FALSE, isProtected |-> FALSE,
   ownerAttached |-> FALSE]

MethodNameLens == {1} \cup (MaxMethodName - 3 .. MaxMethodName)

ArgNameLens == 1..MaxArgName

ArgKinds == {{}, {"isKeyword"}, {"isDefault"}}

MethodShapes ==
  {[FormatMethod0 EXCEPT !.isFinal = TRUE],
   [FormatMethod0 EXCEPT !.isOverride = TRUE, !.resultShown = "Integer"],
   [FormatMethod0 EXCEPT !.isAbstract = TRUE, !.isOverridable = TRUE,
                         !.typeArguments = <<"U">>, !.isProtected = TRUE],
   [FormatMethod0 EXCEPT !.ownerAttached = TRUE],
   [FormatMethod0 EXCEPT !.isPrivate = TRUE],
   FormatMethod0}

(***************************************************************************)
(* State.  db: the export lists of every package.                          *)
(* One call of runOnce, stepped through emit(): pkgName, pc (the position  *)
(* in emit()), run (the locals of emit(): exporter, resolved, output),     *)
(* returned (what the calls of runOnce that have returned gave back, in    *)
(* order).                                                                 *)
(* One rendering of a method by emit(MethodRef): fmethod (the method),     *)
(* fpc (the position: before the signature, before the header, done),      *)
(* sigText and defText (what the two formatters returned).                 *)
(* One call of run: poolSize (workers.size()), callerPc, inputq and        *)
(* leftToPush (the queue), threadBarrier, files (the output directory),    *)
(* and per worker wpc (position in the job), job, woutput (the local       *)
(* output).  Worker 0 is the caller running the job itself, which          *)
(* multiplexJob does for an empty pool.  runOnceOutputs holds, for each    *)
(* package in the order of Packages, what runOnce returns for it on db:    *)
(* it is computed when run starts and read where a worker calls runOnce.   *)
(* For the properties only: popCount and runCount per package, decCount    *)
(* per worker.                                                             *)
(***************************************************************************)
VARIABLES db, pkgName, pc, run, returned,
          poolSize, callerPc, inputq, leftToPush, threadBarrier, files,
          wpc, job, woutput, runOnceOutputs, popCount, runCount, decCount,
          fmethod, fpc, sigText, defText,
          tType, tMethod, tpc, tBefore, tAfter

evars == <<pkgName, pc, run, returned>>

dvars == <<poolSize, callerPc, inputq, leftToPush, threadBarrier, files,
           wpc, job, woutput, runOnceOutputs, popCount, runCount, decCount>>

fvars == <<fmethod, fpc, sigText, defText>>

tvars == <<tType, tMethod, tpc, tBefore, tAfter>>

vars == <<db, evars, dvars, fvars, tvars>>

Workers == 0..MaxWorkers

Active(w) == IF poolSize = 0 THEN w = 0 ELSE w \in 1..poolSize

InitRunOnce(p) ==
  /\ pkgName = p
  /\ pc = "resolve"
  /\ run = [exporter |-> NewExporter(p, buildPackageNamespace),
            resolved |-> [exports |-> <<>>, testExports |-> <<>>],
            output |-> NewOutput(p)]
  /\ returned = <<>>

InitFormat(m, pos) ==
  /\ fmethod = m
  /\ fpc = pos
  /\ sigText = <<>>
  /\ defText = <<>>

InitTypes(p, type, method, pos) ==
  /\ tType = type
  /\ tMethod = method
  /\ tpc = pos
  /\ tBefore = NewExporter(p, buildPackageNamespace)
  /\ tAfter = tBefore

InitRun(n, outputs) ==
  /\ poolSize = n
  /\ runOnceOutputs = outputs
  /\ callerPc = "push"
  /\ inputq = <<>>
  /\ leftToPush = Len(Packages)
  /\ threadBarrier = BarrierInit(n)
  /\ files = {}
  /\ wpc = [w \in Workers |-> "off"]
  /\ job = [w \in Workers |-> "none"]
  /\ woutput = [w \in Workers |-> NewOutput(Packages[1])]
  /\ popCount = [p \in PkgSet |-> 0]
  /\ runCount = [p \in PkgSet |-> 0]
  /\ decCount = [w \in Workers |-> 0]

(***************************************************************************)
(* Spec: one call of runOnce on any package with any export lists.         *)
(***************************************************************************)
Init ==
  /\ \E p \in PkgSet, e \in ExportLists, t \in TestExportLists :
       /\ db = [DefaultDB EXCEPT ![p] = [exports |-> e, testExports |-> t]]
       /\ InitRunOnce(p)
  /\ InitRun(0, <<>>)
  /\ InitFormat(FormatMethod0, "off")
  /\ InitTypes(Packages[1], NullT, "none", "off")

ResolveStep ==
  /\ pc = "resolve"
  /\ run' = NewRun(run.exporter, db[pkgName])
  /\ pc' = "regular"
  /\ UNCHANGED <<db, pkgName, returned, dvars, fvars, tvars>>

SeedRegular ==
  /\ pc = "regular"
  /\ run.resolved.exports # <<>>
  /\ run' = [run EXCEPT !.exporter = SeedExports(@, run.resolved.exports, 1)]
  /\ pc' = "loopRegular"
  /\ UNCHANGED <<db, pkgName, returned, dvars, fvars, tvars>>

SkipRegular ==
  /\ pc = "regular"
  /\ run.resolved.exports = <<>>
  /\ pc' = "test"
  /\ UNCHANGED <<db, pkgName, run, returned, dvars, fvars, tvars>>

EmitLoopIteration ==
  /\ pc \in {"loopRegular", "loopTest"}
  /\ run.exporter.toEmit # <<>>
  /\ ~run.exporter.raised
  /\ run' = [run EXCEPT !.exporter = emitLoopStep(@)]
  /\ UNCHANGED <<db, pkgName, pc, returned, dvars, fvars, tvars>>

CaptureRegular ==
  /\ pc = "loopRegular"
  /\ run.exporter.toEmit = <<>>
  /\ ~run.exporter.raised
  /\ run' = CaptureRbi(run)
  /\ pc' = "test"
  /\ UNCHANGED <<db, pkgName, returned, dvars, fvars, tvars>>

SeedTest ==
  /\ pc = "test"
  /\ run.resolved.testExports # <<>>
  /\ run' = [run EXCEPT !.exporter = SeedExports(@, run.resolved.testExports, 1)]
  /\ pc' = "loopTest"
  /\ UNCHANGED <<db, pkgName, returned, dvars, fvars, tvars>>

SkipTest ==
  /\ pc = "test"
  /\ run.resolved.testExports = <<>>
  /\ pc' = "done"
  /\ UNCHANGED <<db, pkgName, run, returned, dvars, fvars, tvars>>

CaptureTest ==
  /\ pc = "loopTest"
  /\ run.exporter.toEmit = <<>>
  /\ ~run.exporter.raised
  /\ run' = CaptureTestRbi(run)
  /\ pc' = "done"
  /\ UNCHANGED <<db, pkgName, returned, dvars, fvars, tvars>>

Next ==
  \/ ResolveStep
  \/ SeedRegular
  \/ SkipRegular
  \/ EmitLoopIteration
  \/ CaptureRegular
  \/ SeedTest
  \/ SkipTest
  \/ CaptureTest

Spec == Init /\ [][Next]_vars

(***************************************************************************)
(* SpecTwice: up to MaxRuns calls of runOnce, one after the other, for the *)
(* same package on the same db.                                            *)
(***************************************************************************)

(* An exporter kept from the call before instead of a new one. *)
ReusedRun(pkg) == [run EXCEPT !.output = NewOutput(pkg)]

(* RBIExporter exporter(gs, pkg, packageNamespaces): every call of runOnce *)
(* constructs its exporter and its output.                                 *)
FreshRun(pkg) ==
  [exporter |-> NewExporter(pkg, buildPackageNamespace),
   resolved |-> [exports |-> <<>>, testExports |-> <<>>],
   output |-> NewOutput(pkg)]

(* return exporter.emit(), and the next call of runOnce for the package *)
RunOnceAgain ==
  /\ pc = "done"
  /\ Len(returned) + 1 < MaxRuns
  /\ returned' = Append(returned, run.output)
  /\ run' = FreshRun(pkgName)
  /\ pc' = "resolve"
  /\ UNCHANGED <<db, pkgName, dvars, fvars, tvars>>

NextTwice ==
  \/ Next
  \/ RunOnceAgain

SpecTwice == Init /\ [][NextTwice]_vars

(***************************************************************************)
(* SpecFormat: one rendering of a method that has a signature, for every   *)
(* method of MethodShapes with every name and argument list.               *)
(***************************************************************************)
FormatInit ==
  /\ db = DefaultDB
  /\ InitRunOnce(Packages[1])
  /\ InitRun(0, <<>>)
  /\ InitTypes(Packages[1], NullT, "none", "off")
  /\ \E shape \in MethodShapes, nameLen \in MethodNameLens, n \in 0..MaxArgs,
        argLen \in ArgNameLens, kind \in ArgKinds :
       /\ n = 0 => argLen = 1 /\ kind = {}
       /\ InitFormat([shape EXCEPT !.name = Ident(nameLen),
                                   !.arguments = FormatArgs(n, argLen, kind)], "sig")

(* out.println(prettySigForMethod(gs, method, nullptr, resultType, nullptr)) *)
PrettySig ==
  /\ fpc = "sig"
  /\ sigText' = prettySigText(fmethod)
  /\ fpc' = "def"
  /\ UNCHANGED <<db, evars, dvars, tvars, fmethod, defText>>

(* out.println(prettyDefForMethod(gs, method) + "; end") *)
PrettyDef ==
  /\ fpc = "def"
  /\ defText' = prettyDefForMethod(fmethod)
  /\ fpc' = "done"
  /\ UNCHANGED <<db, evars, dvars, tvars, fmethod, sigText>>

FormatNext ==
  \/ PrettySig
  \/ PrettyDef

SpecFormat == FormatInit /\ [][FormatNext]_vars

(***************************************************************************)
(* SpecTypes: enqueueSymbolsInType applied to one type, by an exporter of   *)
(* any package that has emitted nothing yet or has A::Widget on its         *)
(* worklist already.  The types are the leaves below and, up to            *)
(* MaxTypeDepth times, every composite variant around a type and, where    *)
(* the variant has a second child, the leaf ClassType(A::Helper).          *)
(***************************************************************************)
MaxTypeDepth == 2

TypeLeaves ==
  {ClassType("A_Widget"), ClassType("A_Widget_S"), ClassType("B_Base"),
   AliasType("A_Hidden"), SelfTypeParam("A_Widget_Elem"), LiteralType, SelfType}

TypesAround(t) ==
  {OrType(ClassType("A_Helper"), t), AndType(t, ClassType("A_Helper")), MetaType(t),
   TupleType(<<ClassType("A_Helper"), t>>),
   ShapeType(<<LiteralType>>, <<t>>), ShapeType(<<t>>, <<ClassType("A_Helper")>>),
   AppliedType("A_Shape", <<t>>),
   UnresolvedAppliedType("A_Shape", "A_Sub_Thing", <<t>>),
   LambdaParam("A_Widget_Elem", t, ClassType("A_Helper")),
   LambdaParam("A_Widget_Elem", ClassType("A_Helper"), t)}

RECURSIVE TypesOfDepth(_)
TypesOfDepth(d) ==
  IF d = 0 THEN TypeLeaves
  ELSE TypesOfDepth(d - 1) \cup UNION {TypesAround(t) : t \in TypesOfDepth(d - 1)}

TypesInit ==
  /\ db = DefaultDB
  /\ InitRunOnce(Packages[1])
  /\ InitRun(0, <<>>)
  /\ InitFormat(FormatMethod0, "off")
  /\ tMethod = "none"
  /\ tpc = "enqueue"
  /\ tType \in TypesOfDepth(MaxTypeDepth)
  /\ \E p \in PkgSet :
       tBefore \in {NewExporter(p, buildPackageNamespace),
                    maybeEmit(NewExporter(p, buildPackageNamespace), "A_Widget")}
  /\ tAfter = tBefore

(* enqueueSymbolsInType(type) *)
EnqueueSymbolsInType ==
  /\ tpc = "enqueue"
  /\ tAfter' = enqueueSymbolsInType(tBefore, tType)
  /\ tpc' = "enqueued"
  /\ UNCHANGED <<db, evars, dvars, fvars, tType, tMethod, tBefore>>

SpecTypes == TypesInit /\ [][EnqueueSymbolsInType]_vars

(***************************************************************************)
(* SpecPretty: prettySigForMethod and then prettyDefForMethod called for    *)
(* one method of the symbol table, by an exporter of any package that has  *)
(* emitted nothing yet or has one class on its worklist already.  tBefore  *)
(* and tAfter are the exporter before and after the last call.             *)
(***************************************************************************)
Methods == {s \in SymbolIds : gs[s].kind = "Method"}

PrettyInit ==
  /\ db = DefaultDB
  /\ InitRunOnce(Packages[1])
  /\ InitRun(0, <<>>)
  /\ InitFormat(FormatMethod0, "off")
  /\ tType = NullT
  /\ tMethod \in Methods
  /\ tpc = "sig"
  /\ \E p \in PkgSet :
       tBefore \in {NewExporter(p, buildPackageNamespace)}
                     \cup {maybeEmit(NewExporter(p, buildPackageNamespace), s) :
                             s \in {"A_Widget", "A_Shape", "B_Base", "B_Mode"}}
  /\ tAfter = tBefore

(* prettySigForMethod(gs, method, nullptr, resultType, nullptr) *)
CallPrettySig ==
  /\ tpc = "sig"
  /\ tAfter' = prettySigForMethod(tBefore, tMethod)
  /\ tpc' = "sigDone"
  /\ UNCHANGED <<db, evars, dvars, fvars, tType, tMethod, tBefore>>

(* prettyDefForMethod(gs, method): reads gs, touches no member of the      *)
(* exporter.                                                               *)
CallPrettyDef ==
  /\ tpc = "sigDone"
  /\ tBefore' = tAfter
  /\ tAfter' = tAfter
  /\ tpc' = "defDone"
  /\ UNCHANGED <<db, evars, dvars, fvars, tType, tMethod>>

PrettyNext ==
  \/ CallPrettySig
  \/ CallPrettyDef

SpecPretty == PrettyInit /\ [][PrettyNext]_vars

(***************************************************************************)
(* SpecRun: one call of run with any pool size up to MaxWorkers.           *)
(***************************************************************************)
RunInit ==
  /\ db = DefaultDB
  /\ InitRunOnce(Packages[1])
  /\ \E n \in 0..MaxWorkers : InitRun(n, RunOnceEach(DefaultDB, 1))
  /\ InitFormat(FormatMethod0, "off")
  /\ InitTypes(Packages[1], NullT, "none", "off")

(* inputq->push(move(package), 1), once per package *)
Push ==
  /\ callerPc = "push"
  /\ leftToPush > 0
  /\ inputq' = Append(inputq, Packages[Len(Packages) - leftToPush + 1])
  /\ leftToPush' = leftToPush - 1
  /\ UNCHANGED <<db, evars, fvars, tvars, poolSize, callerPc, threadBarrier, files, wpc, job, woutput,
                 popCount, runCount, decCount, runOnceOutputs>>

(* workers.multiplexJob: every worker of the pool starts the job; with an  *)
(* empty pool the caller runs it.                                          *)
MultiplexJob ==
  /\ callerPc = "push"
  /\ leftToPush = 0
  /\ wpc' = [w \in Workers |-> IF Active(w) THEN "try_pop" ELSE "off"]
  /\ callerPc' = IF poolSize = 0 THEN "job" ELSE "wait"
  /\ UNCHANGED <<db, evars, fvars, tvars, poolSize, inputq, leftToPush, threadBarrier, files, job,
                 woutput, popCount, runCount, decCount, runOnceOutputs>>

(* A pop that hands out the head of the queue and leaves it there. *)
TryPopKeepingItem(w) ==
  /\ wpc[w] = "try_pop"
  /\ inputq # <<>>
  /\ job' = [job EXCEPT ![w] = Head(inputq)]
  /\ popCount' = [popCount EXCEPT ![Head(inputq)] = @ + 1]
  /\ wpc' = [wpc EXCEPT ![w] = "runOnce"]
  /\ UNCHANGED <<db, evars, fvars, tvars, poolSize, callerPc, inputq, leftToPush, threadBarrier, files,
                 woutput, runCount, decCount, runOnceOutputs>>

(* result = inputq->try_pop(job) and the loop test !result.done() *)
TryPop(w) ==
  /\ wpc[w] = "try_pop"
  /\ IF try_pop(inputq, leftToPush).gotItem
     THEN /\ job' = [job EXCEPT ![w] = Head(inputq)]
          /\ inputq' = Tail(inputq)
          /\ popCount' = [popCount EXCEPT ![Head(inputq)] = @ + 1]
          /\ wpc' = [wpc EXCEPT ![w] = "runOnce"]
     ELSE /\ wpc' = [wpc EXCEPT ![w] = IF try_pop(inputq, leftToPush).done
                                        THEN "decrement" ELSE "try_pop"]
          /\ UNCHANGED <<job, inputq, popCount>>
  /\ UNCHANGED <<db, evars, fvars, tvars, poolSize, callerPc, leftToPush, threadBarrier, files,
                 woutput, runCount, decCount, runOnceOutputs>>

(* auto output = runOnce(rogs, job, packageNamespaces): the value of        *)
(* runOnce(job[w], db, buildPackageNamespace), read from runOnceOutputs.   *)
RunOnce(w) ==
  /\ wpc[w] = "runOnce"
  /\ woutput' = [woutput EXCEPT ![w] = runOnceOutputs[PackageIndex(job[w])]]
  /\ runCount' = [runCount EXCEPT ![job[w]] = @ + 1]
  /\ wpc' = [wpc EXCEPT ![w] = "writeRbi"]
  /\ UNCHANGED <<db, evars, fvars, tvars, poolSize, callerPc, inputq, leftToPush, threadBarrier, files,
                 job, popCount, decCount, runOnceOutputs>>

WriteRbi(w) ==
  /\ wpc[w] = "writeRbi"
  /\ files' = WriteRbiFile(files, woutput[w])
  /\ wpc' = [wpc EXCEPT ![w] = "writeTestRbi"]
  /\ UNCHANGED <<db, evars, fvars, tvars, poolSize, callerPc, inputq, leftToPush, threadBarrier, job,
                 woutput, popCount, runCount, decCount, runOnceOutputs>>

WriteTestRbi(w) ==
  /\ wpc[w] = "writeTestRbi"
  /\ files' = WriteTestRbiFile(files, woutput[w])
  /\ wpc' = [wpc EXCEPT ![w] = "try_pop"]
  /\ UNCHANGED <<db, evars, fvars, tvars, poolSize, callerPc, inputq, leftToPush, threadBarrier, job,
                 woutput, popCount, runCount, decCount, runOnceOutputs>>

(* The job returning without DecrementCount. *)
ExitWithoutDecrement(w) ==
  /\ wpc[w] = "decrement"
  /\ wpc' = [wpc EXCEPT ![w] = "exited"]
  /\ UNCHANGED <<db, evars, fvars, tvars, poolSize, callerPc, inputq, leftToPush, threadBarrier, files,
                 job, woutput, popCount, runCount, decCount, runOnceOutputs>>

(* threadBarrier.DecrementCount(), then the job returns *)
DecrementCount(w) ==
  /\ wpc[w] = "decrement"
  /\ threadBarrier' = threadBarrier - 1
  /\ decCount' = [decCount EXCEPT ![w] = @ + 1]
  /\ wpc' = [wpc EXCEPT ![w] = "exited"]
  /\ UNCHANGED <<db, evars, fvars, tvars, poolSize, callerPc, inputq, leftToPush, files, job, woutput,
                 popCount, runCount, runOnceOutputs>>

(* with an empty pool multiplexJob returns when the job has returned *)
JobReturns ==
  /\ callerPc = "job"
  /\ wpc[0] = "exited"
  /\ callerPc' = "wait"
  /\ UNCHANGED <<db, evars, fvars, tvars, poolSize, inputq, leftToPush, threadBarrier, files, wpc, job,
                 woutput, popCount, runCount, decCount, runOnceOutputs>>

(* threadBarrier.Wait() returns once the count is zero, and run returns *)
Wait ==
  /\ callerPc = "wait"
  /\ threadBarrier = 0
  /\ callerPc' = "returned"
  /\ UNCHANGED <<db, evars, fvars, tvars, poolSize, inputq, leftToPush, threadBarrier, files, wpc, job,
                 woutput, popCount, runCount, decCount, runOnceOutputs>>

WorkerStep(w) ==
  \/ TryPop(w)
  \/ RunOnce(w)
  \/ WriteRbi(w)
  \/ WriteTestRbi(w)
  \/ DecrementCount(w)

CallerStep ==
  \/ Push
  \/ MultiplexJob
  \/ JobReturns
  \/ Wait

RunNext ==
  \/ CallerStep
  \/ \E w \in Workers : WorkerStep(w)

SpecRun == RunInit /\ [][RunNext]_vars

(* Every thread that can take a step eventually takes one. *)
FairSpecRun ==
  /\ SpecRun
  /\ WF_vars(CallerStep)
  /\ \A w \in Workers : WF_vars(WorkerStep(w))

(***************************************************************************)
(* Properties of one call of runOnce, checked under Spec.                  *)
(*                                                                         *)
(* A line declares its symbol when its kind is one of DeclKinds; the class *)
(* line of a declaration also names, in ref, the superclass, and an        *)
(* include or extend line names the mixin.                                 *)
(***************************************************************************)
DeclKinds ==
  {"class", "module", "def", "sig", "field", "static_field", "cvar", "type_member",
   "type_template", "enum_value"}

DeclaredIn(lines) ==
  {lines[i].sym : i \in {j \in DOMAIN lines : lines[j].k \in DeclKinds}} \ {"none"}

(* Everything rendered so far in this run: the two blobs and the buffer. *)
AllLines == run.output.rbi \o run.output.testRBI \o run.exporter.out

Declared == DeclaredIn(AllLines)

(* The nearest package namespace that encloses a symbol. *)
RECURSIVE EnclosingNamespace(_)
EnclosingNamespace(s) ==
  IF s \in {"root", "none"} THEN "none"
  ELSE IF s \in buildPackageNamespace THEN s
  ELSE EnclosingNamespace(gs[s].owner)

OwnNamespaces(pkg) == {lookupFQN(FullName(pkg)), getPkgTestNamespace(pkg)} \ {"none"}

Owned(s) == EnclosingNamespace(s) \in OwnNamespaces(pkgName)

C2_NoDuplicates ==
  /\ \A i, j \in DOMAIN run.exporter.inserted :
       run.exporter.inserted[i] = run.exporter.inserted[j] => i = j
  /\ \A i, j \in DOMAIN AllLines :
       (/\ AllLines[i].k \in DeclKinds
        /\ AllLines[i].sym # "none"
        /\ AllLines[i].k = AllLines[j].k
        /\ AllLines[i].sym = AllLines[j].sym) => i = j

(* A::Shape is reached as an export, as a return type and as a test        *)
(* export, and A::Widget as an export and as an argument type of Shape.    *)
C2_Witness ==
  /\ pc = "done"
  /\ pkgName = "pkgA"
  /\ db[pkgName].exports = << <<"A", "Widget">>, <<"A", "Shape">> >>
  /\ db[pkgName].testExports = << <<"A", "Shape">> >>
  /\ {"A_Widget", "A_Shape", "A_Shape_area"} \subseteq Declared

(* The class a reference to a class stands for: the attached class for a   *)
(* singleton class, the class itself otherwise.                            *)
AttachedOrSelf(t) ==
  IF Exists(t) /\ IsClassOrModule(t) /\ IsSingletonClass(t) THEN gs[t].attached ELSE t

(* The symbols a type names. *)
RECURSIVE TypeSymbols(_)
TypeSymbols(type) ==
  CASE type.tag \in {"ClassType", "AliasType"} -> {type.symbol}
    [] type.tag \in {"OrType", "AndType"} ->
         TypeSymbols(type.left) \cup TypeSymbols(type.right)
    [] type.tag = "MetaType" -> TypeSymbols(type.wrapped)
    [] OTHER -> {}

(* The symbols the rendering of a member names: for a rendered method its  *)
(* argument types and, with a sig, its return type; for a field its type.  *)
MemberRefs(m) ==
  CASE gs[m].kind = "Method" ->
         IF \/ gs[m].isPrivate /\ gs[m].name # "initialize"
            \/ gs[m].name = "<static-init>"
            \/ shouldSkipMember(gs[m].name)
         THEN {}
         ELSE UNION {TypeSymbols(gs[m].arguments[i].type) : i \in DOMAIN gs[m].arguments}
              \cup (IF gs[m].hasSig THEN TypeSymbols(gs[m].resultType) ELSE {})
    [] gs[m].kind = "FieldOrStaticField" -> TypeSymbols(gs[m].resultType)
    [] OTHER -> {}

ScopeRefs(c) ==
  {gs[c].mixins[i] : i \in DOMAIN gs[c].mixins}
  \cup UNION {MemberRefs(gs[c].members[i][2]) : i \in DOMAIN gs[c].members}

(* The symbols a class names through its superclass, its mixins, and the  *)
(* argument, return and field types of its two scopes.                     *)
ClassRefs(c) ==
  {AttachedOrSelf(t) :
     t \in {gs[c].superClass} \cup ScopeRefs(c)
           \cup (IF Exists(gs[c].singleton) THEN ScopeRefs(gs[c].singleton) ELSE {})}

(* The classes of the package referenced, in any number of steps, from S. *)
RECURSIVE ReachFrom(_)
ReachFrom(S) ==
  LET next == S \cup {t \in UNION {ClassRefs(c) : c \in S} :
                        Exists(t) /\ IsClassOrModule(t) /\ Owned(t)}
  IN  IF next = S THEN S ELSE ReachFrom(next)

DeclaredExports ==
  {s \in Declared :
     \E i \in DOMAIN run.resolved.exports \cup DOMAIN run.resolved.testExports :
       \/ i \in DOMAIN run.resolved.exports /\ run.resolved.exports[i] = s
       \/ i \in DOMAIN run.resolved.testExports /\ run.resolved.testExports[i] = s}

(* C3: when the worklists of both passes have drained, every class of the *)
(* package referenced from a declared export through a superclass, a       *)
(* mixin, an argument type, a return type or a field type is declared.     *)
C3_ReachabilityComplete ==
  pc = "done" => ReachFrom(DeclaredExports) \subseteq Declared

(* A::Widget is declared with its field @size, whose type A::Hidden is a   *)
(* class of the package without a declaration.                             *)
C3_Witness ==
  /\ pc = "done"
  /\ pkgName = "pkgA"
  /\ {"A_Widget", "A_Widget_size"} \subseteq Declared
  /\ "A_Hidden" \in ReachFrom({"A_Widget"}) \ Declared

Range(seq) == {seq[i] : i \in DOMAIN seq}

(* C4, as stated: at the start of the test pass the emitted set and the    *)
(* worklist are empty.                                                     *)
C4_FreshStatePerPass ==
  pc = "test" => run.exporter.emittedSymbols = {} /\ run.exporter.toEmit = <<>>

(* C4, amended: at the start of the test pass the worklist and the text    *)
(* buffer are empty, but the emitted set is never cleared: it holds every  *)
(* symbol inserted so far, those of the regular pass included, so the test *)
(* pass declares no symbol the regular blob declares.                      *)
C4_EmittedSetSharedByPasses ==
  /\ run.exporter.emittedSymbols = Range(run.exporter.inserted)
  /\ pc = "test" => run.exporter.toEmit = <<>> /\ run.exporter.out = <<>>
  /\ pc \in {"loopTest", "done"} =>
       DeclaredIn(run.output.rbi) \cap DeclaredIn(run.output.testRBI \o run.exporter.out) = {}

(* The test export was declared by the regular pass, and the test pass     *)
(* rendered nothing.                                                       *)
C4_Witness ==
  /\ pc = "done"
  /\ run.resolved.testExports = <<"A_Shape">>
  /\ "A_Shape" \in DeclaredIn(run.output.rbi)
  /\ run.output.testRBI = <<>>

(* C5: each blob of runOnce is non-empty only if a declaration was         *)
(* rendered in its pass.                                                   *)
C5_BlobOnlyIfRendered ==
  /\ run.output.rbi # <<>> => DeclaredIn(run.output.rbi) # {}
  /\ run.output.testRBI # <<>> => DeclaredIn(run.output.testRBI) # {}

(* The only export is an enum value class: the regular blob is the header. *)
C5_Witness ==
  /\ pc = "done"
  /\ run.resolved.exports = <<"B_Color_Red">>
  /\ run.output.rbi = <<HeaderLine>>

MethodLines == {i \in DOMAIN AllLines : AllLines[i].k \in {"sig", "def"}}

(* C6, as stated: no signature or header is rendered for a private method. *)
C6_NoPrivateMethodRendered ==
  \A i \in MethodLines : ~gs[AllLines[i].sym].isPrivate

(* C6, amended: the only private method with a signature or header is the  *)
(* initialize of the instance scope, which the constructor synthesis       *)
(* renders without a test on the flag.                                     *)
C6_OnlyInitializeRenderedPrivate ==
  \A i \in MethodLines :
    gs[AllLines[i].sym].isPrivate =>
      /\ gs[AllLines[i].sym].name = "initialize"
      /\ ~IsSingletonClass(gs[AllLines[i].sym].owner)

(* The private helper and the private singleton method were visited and    *)
(* not rendered; the private initialize was rendered.                      *)
C6_Witness ==
  /\ pc = "done"
  /\ {"A_Widget_helper", "A_Widget_S_secret"} \subseteq run.exporter.emittedSymbols
  /\ {"A_Widget_helper", "A_Widget_S_secret"} \cap Declared = {}
  /\ "A_Widget_initialize" \in Declared
  /\ "A_Widget_S_create" \in Declared

(***************************************************************************)
(* Properties of one call of run, checked under SpecRun and FairSpecRun.   *)
(***************************************************************************)

(* C7: under every interleaving each package pushed into the queue is      *)
(* popped by one worker exactly and runOnce is invoked for it once         *)
(* exactly: at no time more than once, and once when run returns.          *)
C7_EachPackageOnce ==
  /\ \A p \in PkgSet : popCount[p] <= 1 /\ runCount[p] <= popCount[p]
  /\ callerPc = "returned" => \A p \in PkgSet : popCount[p] = 1 /\ runCount[p] = 1

(* run has returned after two workers each took packages. *)
C7_Witness ==
  /\ callerPc = "returned"
  /\ poolSize > 1
  /\ job[1] # "none" /\ job[2] # "none"
  /\ \A p \in PkgSet : runCount[p] = 1

(* C8: run returns only after every worker has drained the queue, written  *)
(* what it produced and exited; every worker decrements the counter once   *)
(* exactly; the counter starts at max(pool size, 1), is never negative,    *)
(* and is zero when run returns.                                           *)
C8_ReturnAfterEveryWorkerExited ==
  /\ threadBarrier >= 0
  /\ \A w \in Workers : decCount[w] <= 1
  /\ threadBarrier + Cardinality({w \in Workers : decCount[w] = 1})
       = (IF poolSize > 1 THEN poolSize ELSE 1)
  /\ callerPc = "returned" =>
       /\ threadBarrier = 0
       /\ inputq = <<>> /\ leftToPush = 0
       /\ \A w \in Workers : decCount[w] = IF Active(w) THEN 1 ELSE 0
       /\ \A w \in Workers : wpc[w] = IF Active(w) THEN "exited" ELSE "off"

(* run has returned with a full pool, every worker having decremented. *)
C8_Witness ==
  /\ callerPc = "returned"
  /\ poolSize = MaxWorkers
  /\ \A w \in 1..MaxWorkers : decCount[w] = 1 /\ wpc[w] = "exited"

(* C9: under fair scheduling, for every pool size, zero included: no       *)
(* worker starts before the queue is fully populated, every worker that    *)
(* started eventually exits, having seen the queue done, and run           *)
(* eventually returns.                                                     *)
C9_RunEventuallyReturns ==
  /\ [](\A w \in Workers : wpc[w] # "off" => leftToPush = 0 /\ callerPc # "push")
  /\ <>[](\A w \in Workers : wpc[w] = IF Active(w) THEN "exited" ELSE "off")
  /\ <>(callerPc = "returned")

(* run has returned with an empty pool: the caller ran the job. *)
C9_Witness ==
  /\ callerPc = "returned"
  /\ poolSize = 0
  /\ wpc[0] = "exited"
  /\ \A p \in PkgSet : runCount[p] = 1

WriteOutputs(fs, out) == WriteTestRbiFile(WriteRbiFile(fs, out), out)

(* The files left by one thread that takes the packages in queue order. *)
RECURSIVE SequentialFiles(_, _)
SequentialFiles(fs, i) ==
  IF i > Len(Packages) THEN fs
  ELSE SequentialFiles(WriteOutputs(fs, runOnce(Packages[i], db, buildPackageNamespace)),
                       i + 1)

(* C10: for every pool size and every interleaving the files run leaves    *)
(* are those one worker leaves, with the same contents; what a worker      *)
(* writes for a package is the output of runOnce for that package alone.   *)
C10_SameFilesForEveryPool ==
  /\ \A w \in Workers :
       wpc[w] \in {"writeRbi", "writeTestRbi"} =>
         woutput[w] = runOnce(job[w], db, buildPackageNamespace)
  /\ callerPc = "returned" => files = SequentialFiles({}, 1)

(* run has returned after two workers wrote files for different packages. *)
C10_Witness ==
  /\ callerPc = "returned"
  /\ poolSize > 1
  /\ job[1] # "none" /\ job[2] # "none" /\ job[1] # job[2]
  /\ Cardinality(files) = 3
  /\ \E f \in files : f.path = <<"A_Package", ".test.rbi">>

(* The symbols of the symbol table. *)
Symbols == SymbolIds \ {"none"}

(* The symbols on the owner chain of a symbol, the symbol included. *)
RECURSIVE OwnerChain(_)
OwnerChain(s) == IF s \in {"root", "none"} THEN {s} ELSE {s} \cup OwnerChain(gs[s].owner)

(* C14: for every symbol isInPackage holds exactly when the nearest        *)
(* package namespace among the symbol and its owners is the regular or the *)
(* test namespace of the package; it does not hold when the nearest one    *)
(* belongs to another package, although the package's namespace is further *)
(* up the chain, nor when the chain reaches the root or the package        *)
(* registry with no package namespace on the way.                          *)
C14_NearestNamespaceDecides ==
  /\ \A s \in Symbols :
       isInPackage(run.exporter, s)
         <=> EnclosingNamespace(s) \in {run.exporter.pkgNamespace,
                                        run.exporter.pkgTestNamespace} \ {"none"}
  /\ \A s \in Symbols :
       "PackageRegistry" \in OwnerChain(s) \/ s = "root" => ~isInPackage(run.exporter, s)
  /\ \A s \in run.exporter.emittedSymbols : Owned(s)

(* Package A has scheduled a method of its test namespace and the class    *)
(* the method returns; the class of the nested package A::Sub that an      *)
(* argument names, the superclass of package B and the registry entry of   *)
(* the package are outside.                                                *)
C14_Witness ==
  /\ pc = "done"
  /\ pkgName = "pkgA"
  /\ {"Test_A_Fixture_run", "A_Shape", "A_Widget_resize"} \subseteq run.exporter.emittedSymbols
  /\ run.exporter.pkgNamespace \in OwnerChain("A_Sub_Thing")
  /\ ~isInPackage(run.exporter, "A_Sub_Thing")
  /\ ~isInPackage(run.exporter, "B_Base")
  /\ ~isInPackage(run.exporter, "PackageRegistry_A")

(* C15: for every symbol isInTestPackage holds exactly when the nearest    *)
(* package namespace among the symbol and its owners is the test namespace *)
(* of the package, so isInTestPackage implies isInPackage; it does not     *)
(* hold under the regular namespace nor under a namespace of another       *)
(* package; an export it holds for is put with the test exports.           *)
C15_NearestIsTestNamespace ==
  /\ \A s \in Symbols :
       /\ isInTestPackage(run.exporter, s)
            <=> EnclosingNamespace(s) \in {run.exporter.pkgTestNamespace} \ {"none"}
       /\ isInTestPackage(run.exporter, s) => isInPackage(run.exporter, s)
  /\ \A i \in DOMAIN run.resolved.exports :
       EnclosingNamespace(run.resolved.exports[i]) # run.exporter.pkgTestNamespace
  /\ \A i \in DOMAIN db[pkgName].exports :
       /\ pc # "resolve"
       /\ lookupFQN(db[pkgName].exports[i]) \in Symbols
       /\ EnclosingNamespace(lookupFQN(db[pkgName].exports[i])) = run.exporter.pkgTestNamespace
       => \E j \in DOMAIN run.resolved.testExports :
            run.resolved.testExports[j] = lookupFQN(db[pkgName].exports[i])

(* An export of package A under Test::A was put with the test exports and  *)
(* declared in the test blob; the symbols of the regular namespace are not *)
(* in the test package.                                                    *)
C15_Witness ==
  /\ pc = "done"
  /\ pkgName = "pkgA"
  /\ db[pkgName].testExports = <<>>
  /\ run.resolved.testExports = <<"Test_A_Fixture">>
  /\ run.resolved.exports # <<>>
  /\ "Test_A_Fixture" \in DeclaredIn(run.output.testRBI)
  /\ isInTestPackage(run.exporter, "Test_A_Fixture_run")
  /\ ~isInTestPackage(run.exporter, "A_Widget") /\ isInPackage(run.exporter, "A_Widget")

SingletonClasses == {s \in Symbols : IsClassOrModule(s) /\ IsSingletonClass(s)}

(* The singleton classes the argument types of a rendered method name. *)
SingletonsNamedBy(method) ==
  SingletonClasses
    \cap UNION {TypeSymbols(gs[method].arguments[i].type) : i \in DOMAIN gs[method].arguments}

(* C16: a singleton class is never in emittedSymbols nor in toEmit, and no *)
(* class or module line is rendered for one; where a rendered method names *)
(* a singleton class of the package in an argument type, maybeEmit has     *)
(* scheduled the attached class in its place.                              *)
C16_SingletonNeverScheduled ==
  /\ SingletonClasses
       \cap (run.exporter.emittedSymbols \cup Range(run.exporter.toEmit)
               \cup Range(run.exporter.inserted)) = {}
  /\ \A i \in DOMAIN AllLines :
       AllLines[i].k \in {"class", "module"} => AllLines[i].sym \notin SingletonClasses
  /\ \A i \in MethodLines :
       \A s \in SingletonsNamedBy(AllLines[i].sym) :
         isInPackage(run.exporter, gs[s].attached) =>
           gs[s].attached \in run.exporter.emittedSymbols

(* The test export Test::A::Fixture has a method with an argument of the   *)
(* singleton class of A::Widget: A::Widget was scheduled right after the   *)
(* method, before the return type of its signature, and declared in the    *)
(* test blob.                                                              *)
C16_Witness ==
  /\ pc = "done"
  /\ run.resolved.exports = <<>>
  /\ "A_Widget_S" \in SingletonsNamedBy("Test_A_Fixture_run")
  /\ Len(run.exporter.inserted) >= 4
  /\ SubSeq(run.exporter.inserted, 1, 4)
       = <<"Test_A_Fixture", "Test_A_Fixture_run", "A_Widget", "A_Shape">>
  /\ "A_Widget" \in DeclaredIn(run.output.testRBI)

(* The symbols declared at the top level by the lines of a text from line  *)
(* from on.                                                                *)
TopLevelDeclaredFrom(lines, from) ==
  {lines[i].sym : i \in {j \in DOMAIN lines : /\ j >= from
                                              /\ lines[j].ind = 0
                                              /\ lines[j].k \in DeclKinds}}

(* What one iteration of emitLoop does to the worklist and the buffer: the *)
(* symbol pushed last is removed, the pending symbols under it stay as     *)
(* they are, the symbols scheduled by the iteration are put on top of      *)
(* them, the buffer is extended, and what it gains at the top level is     *)
(* the declaration of the removed symbol.                                  *)
LifoIteration(before, after) ==
  /\ Len(after.toEmit) >= Len(before.toEmit) - 1
  /\ SubSeq(after.toEmit, 1, Len(before.toEmit) - 1)
       = SubSeq(before.toEmit, 1, Len(before.toEmit) - 1)
  /\ \A i \in Len(before.toEmit)..Len(after.toEmit) :
       after.toEmit[i] \notin before.emittedSymbols
  /\ Len(after.out) >= Len(before.out)
  /\ SubSeq(after.out, 1, Len(before.out)) = before.out
  /\ TopLevelDeclaredFrom(after.out, Len(before.out) + 1)
       \subseteq {before.toEmit[Len(before.toEmit)]}

(* C17: toEmit is drained last in, first out: every iteration of emitLoop  *)
(* removes and renders the pending symbol that was pushed last, the        *)
(* symbols it schedules are rendered before those that were pending, and   *)
(* so the top-level declarations of a blob are in the order of the drain.  *)
C17_DrainIsLastInFirstOut ==
  [][(pc \in {"loopRegular", "loopTest"} /\ pc' = pc)
       => LifoIteration(run.exporter, run'.exporter)]_vars

(* A class scheduled while another was rendered has its declaration in     *)
(* the buffer, and a class that was scheduled before it is still pending.  *)
C17_Witness ==
  /\ pc \in {"loopRegular", "loopTest"}
  /\ \E i, j \in DOMAIN run.exporter.inserted :
       /\ i < j
       /\ run.exporter.inserted[i] \in Range(run.exporter.toEmit)
       /\ IsClassOrModule(run.exporter.inserted[i])
       /\ run.exporter.inserted[j] \in TopLevelDeclaredFrom(run.exporter.out, 1)
       /\ \E k \in DOMAIN run.exporter.out :
            /\ run.exporter.out[k].ind = 0
            /\ run.exporter.out[k].k \in {"class", "module"}
            /\ run.exporter.out[k].sym \notin Range(run.resolved.exports)
                                         \cup Range(run.resolved.testExports)
            /\ run.exporter.out[k].sym = run.exporter.inserted[j]

(* The paths of the model that do not resolve: A has no member Missing,    *)
(* and B::Color::DEFAULT is a static field, which has no members.          *)
UnresolvedPaths == {<<"A", "Missing">>, <<"B", "Color", "DEFAULT", "Value">>}

(* The enum value classes, which are declared inside their enum. *)
EnumValueClass(s) == gs[gs[s].superClass].superClass = "T_Enum"

(* The symbols a list of export paths names, the paths that do not resolve *)
(* left out.                                                               *)
NamedBy(rawExports) ==
  {lookupFQN(rawExports[i]) : i \in {j \in DOMAIN rawExports : rawExports[j] \notin UnresolvedPaths}}

(* C18: an export path with a missing component, or with a component       *)
(* under a symbol that is not a class or module, resolves to no symbol and *)
(* is left out of its export list; nothing is raised; the other paths of   *)
(* the list are resolved, and the classes of the package among them are    *)
(* seeded and declared when the run is done.                               *)
C18_UnresolvedExportDropped ==
  /\ \A path \in Paths : Exists(lookupFQN(path)) <=> path \notin UnresolvedPaths
  /\ ~run.exporter.raised
  /\ pc # "resolve" =>
       /\ "none" \notin Range(run.resolved.exports) \cup Range(run.resolved.testExports)
       /\ Range(run.resolved.exports) \cup Range(run.resolved.testExports)
            = NamedBy(db[pkgName].exports) \cup NamedBy(db[pkgName].testExports)
  /\ pc = "done" =>
       \A s \in NamedBy(db[pkgName].exports) \cup NamedBy(db[pkgName].testExports) :
         IsClassOrModule(s) /\ Owned(s) /\ ~EnumValueClass(s) => s \in Declared

(* Package A has an export list with a path through a static field and a   *)
(* test export with a missing component: the run is done, the class the    *)
(* other export names is declared.                                         *)
C18_Witness ==
  /\ pc = "done"
  /\ pkgName = "pkgA"
  /\ db[pkgName].exports = << <<"B", "Color", "DEFAULT", "Value">>, <<"A", "Widget">> >>
  /\ db[pkgName].testExports = << <<"A", "Missing">> >>
  /\ run.resolved = [exports |-> <<"A_Widget">>, testExports |-> <<>>]
  /\ "A_Widget" \in DeclaredIn(run.output.rbi)
  /\ ~run.exporter.raised

(* What a step of the test pass may do, given the emitted set it starts    *)
(* from: it schedules only symbols that were not in the set, and the       *)
(* declarations of the pass are of symbols the regular blob does not       *)
(* declare.                                                                *)
TestPassStep(before, after) ==
  /\ \A s \in Range(after.exporter.toEmit) \ Range(before.exporter.toEmit) :
       s \notin before.exporter.emittedSymbols
  /\ DeclaredIn(after.exporter.out \o after.output.testRBI)
       \cap DeclaredIn(before.output.rbi) = {}

(* C19: within one call of runOnce emittedSymbols only grows, from the     *)
(* regular pass on through the test pass: a symbol scheduled in the        *)
(* regular pass is not scheduled and not declared in the test pass, and    *)
(* the two blobs never declare the same symbol.                            *)
C19_VisitedSetKeptAcrossPasses ==
  [][/\ run.exporter.emittedSymbols \subseteq run'.exporter.emittedSymbols
     /\ (pc \in {"test", "loopTest"} /\ pc' \in {"loopTest", "done"}) => TestPassStep(run, run')
     /\ DeclaredIn(run'.output.rbi) \cap DeclaredIn(run'.output.testRBI) = {}]_vars

(* The test pass of package A was seeded with Test::A::Fixture and with    *)
(* A::Shape, which the regular pass had declared: the test blob declares   *)
(* the fixture, and neither A::Shape nor the A::Widget its method names.   *)
C19_Witness ==
  /\ pc = "done"
  /\ run.resolved.testExports = <<"Test_A_Fixture", "A_Shape">>
  /\ {"A_Shape", "A_Widget"} \subseteq DeclaredIn(run.output.rbi)
  /\ "Test_A_Fixture" \in DeclaredIn(run.output.testRBI)
  /\ {"A_Shape", "A_Widget"} \cap DeclaredIn(run.output.testRBI) = {}

(* The lines of kind k for a symbol among the lines of a text after line   *)
(* from.                                                                   *)
LinesAfter(lines, from, k, sym) ==
  {i \in DOMAIN lines : i > from /\ lines[i].k = k /\ lines[i].sym = sym}

(* The methods emit(MethodRef) is to render: not <static-init>, not private. *)
RenderedMethod(s) ==
  gs[s].kind = "Method" /\ gs[s].name # "<static-init>" /\ ~gs[s].isPrivate

(* C20: a method that was scheduled through maybeEmit and is neither the   *)
(* static initializer nor private has its header, and its signature if it  *)
(* has one, rendered by the iteration of emitLoop that pops it.            *)
C20_PoppedMethodRendered ==
  [][(/\ pc \in {"loopRegular", "loopTest"} /\ pc' = pc
      /\ RenderedMethod(run.exporter.toEmit[Len(run.exporter.toEmit)]))
       => /\ LinesAfter(run'.exporter.out, Len(run.exporter.out), "def",
                        run.exporter.toEmit[Len(run.exporter.toEmit)]) # {}
          /\ gs[run.exporter.toEmit[Len(run.exporter.toEmit)]].hasSig
               => LinesAfter(run'.exporter.out, Len(run.exporter.out), "sig",
                             run.exporter.toEmit[Len(run.exporter.toEmit)]) # {}]_vars

(* The exports A::Shape.area and A::Shape were seeded and the worklist has *)
(* drained: the class is declared, the public method area is in            *)
(* emittedSymbols and has neither signature nor header, not on its own     *)
(* and not inside the class.                                               *)
C20_Witness ==
  /\ pc = "done"
  /\ run.resolved.exports = <<"A_Shape_area", "A_Shape">>
  /\ RenderedMethod("A_Shape_area")
  /\ "A_Shape_area" \in run.exporter.emittedSymbols
  /\ "A_Shape" \in DeclaredIn(run.output.rbi)
  /\ LinesAfter(AllLines, 0, "def", "A_Shape_area") = {}
  /\ LinesAfter(AllLines, 0, "sig", "A_Shape_area") = {}

(* The type members of the two scopes of a class that have a line of their *)
(* own: all but the AttachedClass of the singleton scope.                  *)
PrintedTypeMembers(c) ==
  {tm \in Range(gs[c].typeMembers)
          \cup (IF Exists(gs[c].singleton) THEN Range(gs[gs[c].singleton].typeMembers) ELSE {}) :
     gs[tm].name # "AttachedClass"}

(* C21: when the worklists have drained, every type member of a declared   *)
(* class, AttachedClass apart, has its type_member or type_template line,  *)
(* whether or not a type named the type member before the class was        *)
(* rendered.                                                               *)
C21_TypeMembersOfDeclaredClassPrinted ==
  pc = "done" =>
    \A c \in {s \in Declared : IsClassOrModule(s)} :
      \A tm \in PrintedTypeMembers(c) :
        LinesAfter(AllLines, 0, "type_member", tm)
          \cup LinesAfter(AllLines, 0, "type_template", tm) # {}

(* The only export is A::Shape, whose method area has an argument of the   *)
(* type member Elem of A::Widget: A::Widget is declared, Elem is in        *)
(* emittedSymbols and has no line.                                         *)
C21_Witness ==
  /\ pc = "done"
  /\ run.resolved = [exports |-> <<"A_Shape">>, testExports |-> <<>>]
  /\ {"A_Shape", "A_Shape_area", "A_Widget"} \subseteq DeclaredIn(run.output.rbi)
  /\ "A_Widget_Elem" \in PrintedTypeMembers("A_Widget") \cap run.exporter.emittedSymbols
  /\ LinesAfter(AllLines, 0, "type_member", "A_Widget_Elem") = {}

(* The explicit initialize of the instance scope of a class ("none" when    *)
(* it has none) and its instance fields, in member order.                  *)
InitializeOf(c) ==
  LET found == {i \in DOMAIN gs[c].members :
                  gs[c].members[i][1] = "initialize" /\ gs[gs[c].members[i][2]].kind = "Method"}
  IN  IF found = {} THEN "none" ELSE gs[c].members[CHOOSE i \in found : TRUE][2]

InstanceFieldsOf(c) ==
  LET IsInstanceField(pair) ==
        /\ ~shouldSkipMember(pair[1])
        /\ gs[pair[2]].kind = "FieldOrStaticField"
        /\ gs[pair[2]].isField
      fields == SelectSeq(gs[c].members, IsInstanceField)
  IN  [i \in DOMAIN fields |-> fields[i][2]]

(* The lines of the constructor in the declaration of a class that starts  *)
(* at line i: the lines of the declaration, up to the end at the           *)
(* indentation of line i, that are a header or a signature of a            *)
(* constructor, a field nested in a body, or the end of a body.            *)
ConstructorLines(lines, i) ==
  LET c == lines[i].sym
      last == CHOOSE j \in i..Len(lines) :
                /\ j > i /\ lines[j].k = "end" /\ lines[j].sym = c /\ lines[j].ind = lines[i].ind
                /\ \A h \in (i + 1)..(j - 1) :
                     ~(lines[h].k = "end" /\ lines[h].sym = c /\ lines[h].ind = lines[i].ind)
      IsConstructorLine(l) ==
        \/ l.k \in {"sig_void", "def_initialize"}
        \/ l.k \in {"sig", "def"} /\ gs[l.sym].name = "initialize" /\ gs[l.sym].owner = c
        \/ l.k = "field" /\ l.ind = lines[i].ind + 2
        \/ l.k = "end" /\ l.sym # c
      picked == SelectSeq(SubSeq(lines, i + 1, last - 1), IsConstructorLine)
  IN  [j \in DOMAIN picked |-> <<picked[j].k, picked[j].sym, picked[j].ind - lines[i].ind>>]

(* The lines the three facts decide. *)
ConstructorFor(init, fields, isStruct) ==
  LET body == IF fields = <<>> THEN <<>>
              ELSE [j \in DOMAIN fields |-> <<"field", fields[j], 2>>] \o << <<"end", init, 1>> >>
  IN  IF init = "none" /\ fields = <<>> THEN <<>>
      ELSE IF init = "none"
           THEN << <<"sig_void", "none", 1>>, <<"def_initialize", "none", 1>> >> \o body
      ELSE IF isStruct THEN <<>>
      ELSE (IF gs[init].hasSig THEN << <<"sig", init, 1>> >> ELSE <<>>)
             \o << <<"def", init, 1>> >> \o body

(* C23: in every class declaration the lines of the constructor are the    *)
(* ones decided by the explicit initialize of the class, its instance      *)
(* fields and whether its superclass is T::Struct: none without both;      *)
(* 'sig {void}' and 'def initialize' around every field once, in order,    *)
(* without an initialize; none at all, fields included, for an initialize  *)
(* of a class of T::Struct; otherwise the signature and header of the      *)
(* initialize around every field once.                                     *)
C23_ConstructorSynthesis ==
  \A i \in DOMAIN AllLines :
    AllLines[i].k \in {"class", "module"} =>
      ConstructorLines(AllLines, i)
        = ConstructorFor(InitializeOf(AllLines[i].sym), InstanceFieldsOf(AllLines[i].sym),
                         gs[AllLines[i].sym].superClass = "T_Struct")

(* One run of package A declares a class of each case: A::Shape (neither), *)
(* A::Helper (a field, no initialize), Test::A::Fixture (an initialize on  *)
(* a class of T::Struct, with a field), A::Widget (initialize and field).  *)
C23_Witness ==
  /\ pc = "done"
  /\ {"A_Shape", "A_Helper", "Test_A_Fixture", "A_Widget"} \subseteq Declared
  /\ LinesAfter(AllLines, 0, "field", "A_Helper_flag") # {}
  /\ LinesAfter(AllLines, 0, "field", "A_Widget_size") # {}
  /\ LinesAfter(AllLines, 0, "def", "A_Widget_initialize") # {}
  /\ LinesAfter(AllLines, 0, "field", "Test_A_Fixture_name") = {}
  /\ LinesAfter(AllLines, 0, "def", "Test_A_Fixture_initialize") = {}

(* The enum value children of a class, in member order: the member classes *)
(* whose superclass is the class, when the class derives from T::Enum.     *)
EnumValuesOf(c) ==
  LET IsValue(pair) ==
        /\ ~shouldSkipMember(pair[1])
        /\ gs[pair[2]].kind = "ClassOrModule"
        /\ gs[pair[2]].superClass = c
      vals == IF gs[c].superClass = "T_Enum" THEN SelectSeq(gs[c].members, IsValue) ELSE <<>>
  IN  [i \in DOMAIN vals |-> vals[i][2]]

(* The line that closes the declaration starting at line i. *)
DeclarationEnd(lines, i) ==
  CHOOSE j \in i..Len(lines) :
    /\ j > i /\ lines[j].k = "end" /\ lines[j].sym = lines[i].sym /\ lines[j].ind = lines[i].ind
    /\ \A h \in (i + 1)..(j - 1) :
         ~(lines[h].k = "end" /\ lines[h].sym = lines[i].sym /\ lines[h].ind = lines[i].ind)

(* The enum block a declaration has to end with. *)
EnumBlockFor(c, base) ==
  IF EnumValuesOf(c) = <<>> THEN <<>>
  ELSE << <<"enums do", c, base + 1>> >>
         \o [j \in DOMAIN EnumValuesOf(c) |-> <<"enum_value", EnumValuesOf(c)[j], base + 2>>]
         \o << <<"end", c, base + 1>> >>

(* The lines of enum blocks inside the declaration starting at line i, and *)
(* the lines the declaration ends with, as many as the enum block has.     *)
EnumLinesIn(lines, i) ==
  LET IsEnumLine(l) == l.k \in {"enums do", "enum_value"}
                         \/ (l.k = "end" /\ l.sym = lines[i].sym)
      picked == SelectSeq(SubSeq(lines, i + 1, DeclarationEnd(lines, i) - 1), IsEnumLine)
  IN  [j \in DOMAIN picked |-> <<picked[j].k, picked[j].sym, picked[j].ind>>]

LastLinesIn(lines, i, n) ==
  [j \in 1..n |-> LET l == lines[DeclarationEnd(lines, i) - n - 1 + j]
                  IN  <<l.k, l.sym, l.ind>>]

EnumBlocksRendered ==
  /\ \A i \in DOMAIN AllLines : AllLines[i].k \in {"class", "module"} =>
       /\ ~EnumValueClass(AllLines[i].sym)
       /\ EnumLinesIn(AllLines, i) = EnumBlockFor(AllLines[i].sym, AllLines[i].ind)
       /\ LastLinesIn(AllLines, i, Len(EnumBlockFor(AllLines[i].sym, AllLines[i].ind)))
            = EnumBlockFor(AllLines[i].sym, AllLines[i].ind)
  /\ \A i \in DOMAIN AllLines : AllLines[i].k \in {"enums do", "enum_value"} =>
       \E h \in 1..i : /\ AllLines[h].k = "class"
                       /\ h < i /\ i < DeclarationEnd(AllLines, h)
                       /\ gs[AllLines[h].sym].superClass = "T_Enum"

(* The iteration that declares an enum schedules none of its values. *)
EnumValuesNotPushed ==
  (/\ pc \in {"loopRegular", "loopTest"} /\ pc' = pc
   /\ gs[run.exporter.toEmit[Len(run.exporter.toEmit)]].superClass = "T_Enum")
    => \A v \in Range(EnumValuesOf(run.exporter.toEmit[Len(run.exporter.toEmit)])) :
         /\ v \in run'.exporter.emittedSymbols => v \in run.exporter.emittedSymbols
         /\ v \in Range(run'.exporter.toEmit) => v \in Range(run.exporter.toEmit)

(* C24: no class line is ever printed for a class whose superclass's       *)
(* superclass is T::Enum, however it was scheduled; the iteration that     *)
(* declares a class of T::Enum pushes none of its value children; and a    *)
(* declaration ends with one 'enums do' block listing every value child    *)
(* once, in member order, exactly when the class derives from T::Enum and  *)
(* has a value child, no such block being printed anywhere else.           *)
C24_EnumHandling ==
  [](EnumBlocksRendered) /\ [][EnumValuesNotPushed]_vars

(* Package B exports B::Color::Red and B::Base: the value classes Red (an  *)
(* export) and Blue (the type of an argument) were scheduled, B::Color     *)
(* and the enum without values B::Mode are declared, and the enum block    *)
(* of B::Color lists Red and Blue.                                         *)
C24_Witness ==
  /\ pc = "done"
  /\ {"B_Color_Red", "B_Color_Blue"} \subseteq run.exporter.emittedSymbols
  /\ {"B_Color", "B_Mode", "B_Base"} \subseteq Declared
  /\ \E i \in DOMAIN AllLines :
       /\ AllLines[i].k = "class" /\ AllLines[i].sym = "B_Color"
       /\ EnumLinesIn(AllLines, i)
            = << <<"enums do", "B_Color", 1>>, <<"enum_value", "B_Color_Red", 2>>,
                 <<"enum_value", "B_Color_Blue", 2>>, <<"end", "B_Color", 1>> >>

(* The symbols of the package of the run. *)
InPackageSymbols == {s \in Symbols : isInPackage(run.exporter, s)}

(* The worklist is a record of first insertions: every symbol is inserted  *)
(* into emittedSymbols at most once, only symbols of the package are, and  *)
(* the symbols popped or still on the worklist are among them, each at     *)
(* most once on the worklist.                                              *)
PushedOnceEach ==
  /\ Len(run.exporter.inserted) = Cardinality(run.exporter.emittedSymbols)
  /\ run.exporter.emittedSymbols \subseteq InPackageSymbols
  /\ Range(run.exporter.toEmit) \subseteq run.exporter.emittedSymbols
  /\ Cardinality(Range(run.exporter.toEmit)) = Len(run.exporter.toEmit)
  /\ run.exporter.pops + Len(run.exporter.toEmit) <= Len(run.exporter.inserted)

(* What is left to do: the symbols of the package not yet inserted and    *)
(* the symbols on the worklist.                                            *)
LeftToEmit(st) ==
  Cardinality({s \in Symbols : isInPackage(st, s)} \ st.emittedSymbols) + Len(st.toEmit)

(* C26: the drain loops terminate.  Every iteration is one pop and makes   *)
(* LeftToEmit smaller, whatever cycles the class graph has (package A has  *)
(* A::Widget -> A::Shape -> A::Widget); an iteration is possible whenever  *)
(* the worklist is not empty, and a loop is left only with an empty        *)
(* worklist; so over the two loops of a run the number of pops never       *)
(* exceeds the number of symbols of the package, a symbol being pushed     *)
(* only when it is first inserted into emittedSymbols.                     *)
C26_DrainLoopTerminates ==
  /\ [](/\ PushedOnceEach
        /\ run.exporter.pops <= Cardinality(InPackageSymbols)
        /\ ~run.exporter.raised)
  /\ [][(pc \in {"loopRegular", "loopTest"} /\ pc' = pc)
          => /\ run'.exporter.pops = run.exporter.pops + 1
             /\ LeftToEmit(run'.exporter) < LeftToEmit(run.exporter)]_vars
  /\ [][(pc \in {"loopRegular", "loopTest"} /\ pc' # pc)
          => run.exporter.toEmit = <<>>]_vars

(* Both classes of the cycle were popped and declared and the worklist is  *)
(* empty at the end of the run.                                            *)
C26_Witness ==
  /\ pc = "done"
  /\ run.exporter.toEmit = <<>>
  /\ run.exporter.pops >= 3
  /\ {"A_Widget", "A_Shape"} \subseteq DeclaredIn(run.output.rbi)
  /\ run.resolved.exports = <<"A_Widget">>

(* C27: Exception::raise("Invalid klass") is never reached in a run: every *)
(* class or module on the worklist is in emittedSymbols and satisfies      *)
(* isInPackage, which is what emit(ClassOrModuleRef) tests on entry.       *)
C27_InvalidKlassUnreachable ==
  /\ ~run.exporter.raised
  /\ \A i \in DOMAIN run.exporter.toEmit :
       IsClassOrModule(run.exporter.toEmit[i]) =>
         /\ run.exporter.toEmit[i] \in run.exporter.emittedSymbols
         /\ isInPackage(run.exporter, run.exporter.toEmit[i])

(* A::Widget has been declared by the drain loop of package A; its mixin   *)
(* A::Helper and the class A::Shape of a return type wait on the worklist, *)
(* its superclass B::Base, a class of package B, does not.                 *)
C27_Witness ==
  /\ pc = "loopRegular"
  /\ pkgName = "pkgA"
  /\ "A_Widget" \in DeclaredIn(run.exporter.out)
  /\ {"A_Helper", "A_Shape"} \subseteq Range(run.exporter.toEmit)
  /\ "B_Base" \notin run.exporter.emittedSymbols
  /\ ~run.exporter.raised

(* What maybeEmit has to have scheduled for a set of symbols: those of     *)
(* the package, a singleton class standing for its attached class.         *)
Schedulable(st, symbols) == {s \in {AttachedOrSelf(n) : n \in symbols} : isInPackage(st, s)}

(* The symbols a list of export paths resolves to, in order, and those of  *)
(* them that lie, or do not lie, in the test namespace of the package.     *)
ResolvedPaths(rawExports) ==
  LET Resolves(path) == lookupFQN(path) \in Symbols
      paths == SelectSeq(rawExports, Resolves)
  IN  [i \in DOMAIN paths |-> lookupFQN(paths[i])]

InTestNamespace(s) == EnclosingNamespace(s) \in {getPkgTestNamespace(pkgName)} \ {"none"}

NotInTestNamespace(s) == ~InTestNamespace(s)

(* C28: once the export lists are resolved, the exports of the regular     *)
(* pass are the resolved paths of the regular list outside the test        *)
(* namespace of the package, and the exports of the test pass are the      *)
(* resolved paths of the regular list inside that namespace followed by    *)
(* every resolved path of the test-export list; the test pass has passed   *)
(* each of its exports to maybeEmit; and the regular blob is empty exactly *)
(* when the regular pass has no export, so it is for a package whose       *)
(* regular exports all lie in its test namespace.                          *)
C28_ExportRouting ==
  pc # "resolve" =>
    /\ run.resolved.exports
         = SelectSeq(ResolvedPaths(db[pkgName].exports), NotInTestNamespace)
    /\ run.resolved.testExports
         = SelectSeq(ResolvedPaths(db[pkgName].exports), InTestNamespace)
             \o ResolvedPaths(db[pkgName].testExports)
    /\ pc \in {"loopTest", "done"} =>
         Schedulable(run.exporter, Range(run.resolved.testExports))
           \subseteq run.exporter.emittedSymbols
    /\ pc \in {"test", "loopTest", "done"} =>
         (run.output.rbi = <<>> <=> run.resolved.exports = <<>>)

(* Package A exports Test::A::Fixture in its regular list and A::Shape in  *)
(* its test-export list: there is no regular blob, and the test blob       *)
(* declares both.                                                          *)
C28_Witness ==
  /\ pc = "done"
  /\ pkgName = "pkgA"
  /\ db[pkgName] = [exports |-> << <<"Test", "A", "Fixture">> >>,
                    testExports |-> << <<"A", "Shape">> >>]
  /\ run.resolved = [exports |-> <<>>, testExports |-> <<"Test_A_Fixture", "A_Shape">>]
  /\ run.output.rbi = <<>>
  /\ {"Test_A_Fixture", "A_Shape"} \subseteq DeclaredIn(run.output.testRBI)

(***************************************************************************)
(* Properties of the type traversal (SpecTypes).                           *)
(***************************************************************************)
(* The symbols a type names at any depth: the symbol of an alias or class  *)
(* type, the class of an applied type, the class and symbol of an          *)
(* unresolved applied type, the definition of a SelfTypeParam and, when    *)
(* withBounded holds, the definition of a LambdaParam as well.             *)
RECURSIVE NamedSymbols(_, _)
NamedSymbols(type, withBounded) ==
  CASE type.tag \in {"ClassType", "AliasType"} -> {type.symbol}
    [] type.tag \in {"OrType", "AndType"} ->
         NamedSymbols(type.left, withBounded) \cup NamedSymbols(type.right, withBounded)
    [] type.tag = "MetaType" -> NamedSymbols(type.wrapped, withBounded)
    [] type.tag = "AppliedType" ->
         {type.klass} \cup UNION {NamedSymbols(t, withBounded) : t \in Range(type.targs)}
    [] type.tag = "UnresolvedAppliedType" ->
         {type.klass, type.symbol}
           \cup UNION {NamedSymbols(t, withBounded) : t \in Range(type.targs)}
    [] type.tag = "TupleType" -> UNION {NamedSymbols(t, withBounded) : t \in Range(type.elems)}
    [] type.tag = "ShapeType" ->
         UNION {NamedSymbols(t, withBounded) : t \in Range(type.keys) \cup Range(type.values)}
    [] type.tag = "SelfTypeParam" -> {type.definition}
    [] type.tag = "LambdaParam" ->
         (IF withBounded THEN {type.definition} ELSE {})
           \cup NamedSymbols(type.lowerBound, withBounded)
           \cup NamedSymbols(type.upperBound, withBounded)
    [] OTHER -> {}

Scheduled(withBounded) ==
  LET want == Schedulable(tBefore, NamedSymbols(tType, withBounded)) IN
    /\ tAfter.emittedSymbols = tBefore.emittedSymbols \cup want
    /\ Range(tAfter.toEmit) = Range(tBefore.toEmit) \cup (want \ tBefore.emittedSymbols)
    /\ Len(tAfter.toEmit) = Len(tBefore.toEmit) + Cardinality(want \ tBefore.emittedSymbols)

(* C22 as stated: after enqueueSymbolsInType(type) every symbol of the     *)
(* package that the type names at any depth has been scheduled, the        *)
(* definition of a bounded parameter (LambdaParam) included.               *)
C22_TraversalSchedulesBoundedDefinition ==
  tpc = "enqueued" => Scheduled(TRUE)

(* C22 as the traversal is: after enqueueSymbolsInType(type) the symbols   *)
(* scheduled are exactly the symbols of the package that the type names at *)
(* any depth through an alias, a class, an applied or unresolved applied   *)
(* type or a SelfTypeParam, inside every child of every composite variant; *)
(* a LambdaParam contributes the symbols of its two bounds and not its     *)
(* definition, a literal and a self type contribute nothing.               *)
C22_TraversalSchedulesNamedSymbols ==
  tpc = "enqueued" => Scheduled(FALSE)

(* A SelfTypeParam two levels inside composites, together with a class     *)
(* named by a sibling child, both scheduled by the traversal.              *)
C22_Witness ==
  /\ tpc = "enqueued"
  /\ tType = TupleType(<<ClassType("A_Helper"),
                         ShapeType(<<LiteralType>>, <<SelfTypeParam("A_Widget_Elem")>>)>>)
  /\ tBefore.pkg = "pkgA"
  /\ tBefore.toEmit = <<>>
  /\ tAfter.toEmit = <<"A_Helper", "A_Widget_Elem">>

(***************************************************************************)
(* Properties of the formatters as members of the exporter (SpecPretty).   *)
(***************************************************************************)
(* The symbols named by the types the signature shows: the return type and *)
(* the type of every argument but the synthetic block argument.            *)
SigSymbols(method) ==
  NamedSymbols(getResultType(gs[method].resultType), FALSE)
    \cup UNION {NamedSymbols(getResultType(gs[method].arguments[i].type), FALSE) :
                  i \in {j \in DOMAIN gs[method].arguments :
                           ~gs[method].arguments[j].syntheticBlock}}

(* C25 as stated: a call of either formatter leaves the emitted set, the   *)
(* worklist and the text buffer as they were.                              *)
C25_FormattersLeaveStateUnchanged ==
  tpc \in {"sigDone", "defDone"} =>
    /\ tAfter.emittedSymbols = tBefore.emittedSymbols
    /\ tAfter.toEmit = tBefore.toEmit
    /\ tAfter.out = tBefore.out

(* C25 as the formatters are: the header formatter leaves the exporter as  *)
(* it was; the signature formatter leaves the text buffer and the          *)
(* indentation as they were and removes nothing, but it schedules the      *)
(* symbols of the package named by the return type and by the types of the *)
(* displayed arguments: each one not yet emitted is inserted into the      *)
(* emitted set and pushed on the worklist once.                            *)
C25_OnlySigFormatterSchedules ==
  /\ tpc = "defDone" => tAfter = tBefore
  /\ tpc = "sigDone" =>
       /\ tAfter.out = tBefore.out /\ tAfter.indent = tBefore.indent
       /\ tAfter.emittedSymbols
            = tBefore.emittedSymbols \cup Schedulable(tBefore, SigSymbols(tMethod))
       /\ SubSeq(tAfter.toEmit, 1, Len(tBefore.toEmit)) = tBefore.toEmit
       /\ Range(tAfter.toEmit)
            = Range(tBefore.toEmit)
                \cup (Schedulable(tBefore, SigSymbols(tMethod)) \ tBefore.emittedSymbols)
       /\ Len(tAfter.toEmit) = Len(tBefore.toEmit)
            + Cardinality(Schedulable(tBefore, SigSymbols(tMethod)) \ tBefore.emittedSymbols)

(* The signature of A::Widget#resize, formatted by a fresh exporter of     *)
(* package A, has scheduled the class of its return type, A::Shape.        *)
C25_Witness ==
  /\ tpc = "sigDone"
  /\ tMethod = "A_Widget_resize"
  /\ tBefore.pkg = "pkgA"
  /\ tBefore.emittedSymbols = {} /\ tBefore.toEmit = <<>>
  /\ tAfter.emittedSymbols = {"A_Shape"} /\ tAfter.toEmit = <<"A_Shape">>
  /\ tAfter.out = <<>>

(***************************************************************************)
(* Properties of repeated calls of runOnce, checked under SpecTwice.       *)
(***************************************************************************)

LineBreaks(text) == Cardinality({i \in DOMAIN text : text[i] = "\n"})

Displayed(m) == Cardinality({i \in DOMAIN m.arguments : ~m.arguments[i].syntheticBlock})

=============================================================================
